---- MODULE Spec2Model ----
(***************************************************************************)
(* Model of ush/python_utils/config_parser.py: the structural operations   *)
(* over nested dictionaries (flatten_dict, structure_dict, update_dict,    *)
(* check_structure_dict, filter_dict) and the Jinja2 expansion pass        *)
(* extend_yaml.                                                            *)
(*                                                                         *)
(* Python values are tagged records.  A str is a sequence of one-character *)
(* strings, a dict is a sequence of [k, v] entries in insertion order with *)
(* unique keys (a key is a sequence of characters as well).                *)
(***************************************************************************)
EXTENDS Integers, Sequences, FiniteSets, TLC

VARIABLES
    op,               \* the function called last ("none" before any call)
    dict_o,           \* first positional argument of the call
    dict_t,           \* second positional argument; update_dict mutates it
    pre_t,            \* dict_t as it was when the last call started
    provide_default,  \* update_dict's keyword argument
    keys,             \* flatten_dict's keys argument (PyNone or a list)
    keys_regex,       \* filter_dict's list of patterns
    ret,              \* value returned by the last call
    exc,              \* exception the last call raised ("none" if it returned)
    calls,            \* number of calls made so far
    config_file_or_string,  \* text handed to a loader: a path or the contents
    ext,              \* load_config_file's ext argument
    context,          \* load_config_file's context argument
    adapters,         \* the loaders called so far, in order
    files,            \* the files that exist: path -> contents
    args,             \* cfg_main's parsed command line
    stdout,           \* the texts cfg_main has printed, in order
    heap              \* the dict objects of a merge by reference: id -> items

vars == <<op, dict_o, dict_t, pre_t, provide_default, keys, keys_regex, ret, exc, calls,
          config_file_or_string, ext, context, adapters, files, args, stdout, heap>>

(* the variables of the loaders *)
loaderVars == <<config_file_or_string, ext, context, adapters, files>>

(* the variables of cfg_main *)
mainVars == <<args, stdout>>

-----------------------------------------------------------------------------
(* Bounds *)

MaxCalls == 2

(* calls on a target that shares objects with its source: the merge of the
   source, then merges of other sources and expansions *)
MaxAliasCalls == 3

(* calls in a run of the XML adapter: load, write, load again *)
MaxXmlCalls == 3

-----------------------------------------------------------------------------
(* Python values *)

PyNone == [tag |-> "null"]
PyBool(b) == [tag |-> "bool", b |-> b]
PyInt(i) == [tag |-> "int", i |-> i]
PyStr(s) == [tag |-> "str", s |-> s]
PyList(l) == [tag |-> "list", l |-> l]
PyDict(entries) == [tag |-> "map", m |-> entries]
Item(k, v) == [k |-> k, v |-> v]

IsNone(x) == x.tag = "null"
IsStr(x) == x.tag = "str"
IsList(x) == x.tag = "list"
IsDict(x) == x.tag = "map"

EmptyDict == PyDict(<<>>)

(* no loader is involved *)
NoLoader ==
    /\ config_file_or_string = <<>>
    /\ ext = <<>>
    /\ context = PyNone
    /\ adapters = <<>>
    /\ files = <<>>

(* no object is shared between documents *)
NoHeap == heap = <<>>

(* cfg_main is not involved *)
NoMain ==
    /\ args = <<>>
    /\ stdout = <<>>

(* s[i..i+Len(sub)-1] = sub *)
OccursAt(sub, s, i) ==
    /\ i >= 1
    /\ i + Len(sub) - 1 <= Len(s)
    /\ \A j \in 1..Len(sub) : s[i + j - 1] = sub[j]

(* `sub in s` for two str *)
Contains(s, sub) == \E i \in 1..(Len(s) + 1) : OccursAt(sub, s, i)

(* dict primitives: `k in d`, `d[k]`, `d[k] = v`, `del d[k]` *)
KeysOf(d) == {d.m[i].k : i \in 1..Len(d.m)}
HasKey(d, k) == k \in KeysOf(d)
IndexOf(d, k) == CHOOSE i \in 1..Len(d.m) : d.m[i].k = k
GetItem(d, k) == d.m[IndexOf(d, k)].v
SetItem(d, k, v) ==
    IF HasKey(d, k)
    THEN PyDict([i \in 1..Len(d.m) |-> IF d.m[i].k = k THEN Item(k, v) ELSE d.m[i]])
    ELSE PyDict(Append(d.m, Item(k, v)))
DelItem(d, k) == PyDict(SelectSeq(d.m, LAMBDA e : e.k # k))

(* `a == b` on Python values: dicts compare without regard to key order *)
RECURSIVE PyEq(_, _)
PyEq(a, b) ==
    IF a.tag # b.tag THEN FALSE
    ELSE IF IsDict(a) THEN
        /\ KeysOf(a) = KeysOf(b)
        /\ \A k \in KeysOf(a) : PyEq(GetItem(a, k), GetItem(b, k))
    ELSE IF IsList(a) THEN
        /\ Len(a.l) = Len(b.l)
        /\ \A i \in 1..Len(a.l) : PyEq(a.l[i], b.l[i])
    ELSE a = b

(* F(x) with x evaluated once, before F is applied (an argument is otherwise
   evaluated again at each of its uses) *)
Strict(F(_), x) == CHOOSE r \in {F(y) : y \in {x}} : TRUE

(* the literal "{{" *)
OpenExpr == <<"{", "{">>
(* the literal "{%" *)
OpenStmt == <<"{", "%">>

-----------------------------------------------------------------------------
(* update_dict *)

(* isinstance(dict_t.get(k), dict) *)
TargetIsDict(t, k) == HasKey(t, k) /\ IsDict(GetItem(t, k))

(* a plausible slip: the null entry is stored instead of deleting the key *)
MutIsDeletion(v, t, k) == FALSE

(* v is None and k in dict_t.keys() *)
IsDeletion(v, t, k) == IsNone(v) /\ HasKey(t, k)

(* len(x): "TypeError" for a value that has no len() *)
PyLen(x) ==
    IF IsStr(x) THEN Len(x.s) ELSE IF IsList(x) THEN Len(x.l) ELSE IF IsDict(x) THEN Len(x.m) ELSE -1

HasLen(x) == x.tag \in {"str", "list", "map"}

(* "{{" in x, for x with a len(): substring of a str, element of a list,
   key of a dict *)
InOpenExpr(x) ==
    IF IsStr(x) THEN Contains(x.s, OpenExpr)
    ELSE IF IsList(x) THEN \E i \in 1..Len(x.l) : x.l[i] = PyStr(OpenExpr)
    ELSE HasKey(x, OpenExpr)

(* The condition guarding the overwrite of an existing key; evaluated left
   to right with short circuit.  "TypeError" when len() is applied to a
   number or a boolean. *)
OverwriteCond(tv, pd) ==
    IF ~pd THEN "true"
    ELSE IF IsNone(tv) THEN "true"
    ELSE IF ~HasLen(tv) THEN "TypeError"
    ELSE IF PyLen(tv) = 0 THEN "true"
    ELSE IF InOpenExpr(tv) THEN "true"
    ELSE "false"

(* a plausible slip: on a type conflict the target's own value is kept *)
MutTypeConflictValue(v, t, k) == IF HasKey(t, k) THEN GetItem(t, k) ELSE v

(* What the target receives for a dict-valued source entry when the target
   holds no dict under that key *)
TypeConflictValue(v, t, k) == v

RECURSIVE UpdateFrom(_, _, _, _)
(* The loop of update_dict from the i-th item of the source snapshot on.
   Yields the target as left by the loop and the exception that ended it. *)
UpdateFrom(items, i, t, pd) ==
    IF i > Len(items) THEN [t |-> t, exc |-> "none"]
    ELSE
        LET k == items[i].k
            v == items[i].v
        IN  IF IsDict(v) THEN
                IF TargetIsDict(t, k) THEN
                    LET r == UpdateFrom(v.m, 1, GetItem(t, k), pd)
                        t2 == SetItem(t, k, r.t)
                    IN  IF r.exc # "none" THEN [t |-> t2, exc |-> r.exc]
                        ELSE UpdateFrom(items, i + 1, t2, pd)
                ELSE UpdateFrom(items, i + 1, SetItem(t, k, TypeConflictValue(v, t, k)), pd)
            ELSE IF IsDeletion(v, t, k) THEN
                UpdateFrom(items, i + 1, DelItem(t, k), pd)
            ELSE IF HasKey(t, k) THEN
                LET c == OverwriteCond(GetItem(t, k), pd)
                IN  IF c = "TypeError" THEN [t |-> t, exc |-> "TypeError"]
                    ELSE IF c = "true" THEN UpdateFrom(items, i + 1, SetItem(t, k, v), pd)
                    ELSE UpdateFrom(items, i + 1, t, pd)
            ELSE UpdateFrom(items, i + 1, SetItem(t, k, v), pd)

update_dict(o, t, pd) == UpdateFrom(o.m, 1, t, pd)

-----------------------------------------------------------------------------
(* Input universes *)

kA == <<"a">>
kB == <<"b">>

(* dicts over the keys a, b (in that order) with values from Vals *)
DictsAB(Vals) ==
    {EmptyDict}
        \cup {PyDict(<<Item(k, v)>>) : k \in {kA, kB}, v \in Vals}
        \cup {PyDict(<<Item(kA, v), Item(kB, w)>>) : v \in Vals, w \in Vals}

(* dicts over the single key a *)
DictsA(Vals) == {EmptyDict} \cup {PyDict(<<Item(kA, v)>>) : v \in Vals}

sX == PyStr(<<"x">>)
sEmpty == PyStr(<<>>)
sExprA == PyStr(<<"{", "{", "a", "}", "}">>)
sStmt == PyStr(<<"{", "%", "x", "%", "}">>)

MergeSourceLeaves == {PyNone, PyInt(5)}
MergeSources == DictsAB(MergeSourceLeaves \cup DictsA(MergeSourceLeaves))

MergeTargetLeaves ==
    {PyNone, PyInt(9), PyBool(TRUE), sX, sEmpty, sExprA, sStmt, PyList(<<PyInt(1)>>)}
MergeTargets == DictsAB(MergeTargetLeaves \cup DictsAB({PyInt(9), sExprA}))

-----------------------------------------------------------------------------
(* Merge: update_dict applied to a source and a target *)

InitMerge ==
    /\ op = "none"
    /\ dict_o \in MergeSources
    /\ dict_t \in MergeTargets
    /\ pre_t = dict_t
    /\ provide_default \in BOOLEAN
    /\ keys = PyNone
    /\ keys_regex = <<>>
    /\ ret = PyNone
    /\ exc = "none"
    /\ calls = 0
    /\ NoLoader
    /\ NoMain
    /\ NoHeap

CallUpdateDict ==
    /\ calls < MaxCalls
    /\ LET r == update_dict(dict_o, dict_t, provide_default)
       IN  /\ dict_t' = r.t
           /\ exc' = r.exc
    /\ pre_t' = dict_t
    /\ op' = "update_dict"
    /\ ret' = PyNone
    /\ calls' = calls + 1
    /\ UNCHANGED <<dict_o, provide_default, keys, keys_regex>>
    /\ UNCHANGED loaderVars
    /\ UNCHANGED mainVars
    /\ UNCHANGED heap

NextMerge == CallUpdateDict

SpecMerge == InitMerge /\ [][NextMerge]_vars

-----------------------------------------------------------------------------
(* Properties of update_dict *)

Merged == op = "update_dict"
Returned == exc = "none"

(* a value that provide-default mode is meant to treat as filled: not None,
   not empty, and, for a str, free of template syntax *)
Filled(x) ==
    /\ ~IsNone(x)
    /\ HasLen(x) => PyLen(x) > 0
    /\ IsStr(x) => ~Contains(x.s, OpenExpr) /\ ~Contains(x.s, OpenStmt)

(* a value that provide-default mode is meant to treat as unfilled *)
Unfilled(x) ==
    \/ IsNone(x)
    \/ HasLen(x) /\ PyLen(x) = 0
    \/ IsStr(x) /\ (Contains(x.s, OpenExpr) \/ Contains(x.s, OpenStmt))

(* keys of both source and target whose source value is a plain value
   (neither a dict nor None) *)
PlainShared(o, t) ==
    {k \in KeysOf(o) \cap KeysOf(t) : ~IsDict(GetItem(o, k)) /\ ~IsNone(GetItem(o, k))}

(* C1: when update_dict returns, every source key whose value is None and
   which the target held is gone from the target, and every target key the
   source does not name is still there with its value. *)
C1_NullDeletesKey ==
    (Merged /\ Returned) =>
        /\ \A k \in KeysOf(dict_o) :
              (IsNone(GetItem(dict_o, k)) /\ HasKey(pre_t, k)) => ~HasKey(dict_t, k)
        /\ \A k \in KeysOf(pre_t) \ KeysOf(dict_o) :
              HasKey(dict_t, k) /\ GetItem(dict_t, k) = GetItem(pre_t, k)

(* C1 witness: merge({"a": None}, {"a": .., "b": ..}) has left {"b": ..} *)
C1_Witness ==
    /\ Merged /\ Returned
    /\ HasKey(dict_o, kA) /\ IsNone(GetItem(dict_o, kA)) /\ ~HasKey(dict_o, kB)
    /\ HasKey(pre_t, kA) /\ HasKey(pre_t, kB)
    /\ KeysOf(dict_t) = {kB}

(* C2: in provide-default mode the call completes without error and leaves
   every filled target value unchanged, for a key that source and target
   share and whose source value is a plain value. *)
C2_DefaultKeepsFilled ==
    (Merged /\ provide_default) =>
        \A k \in PlainShared(dict_o, pre_t) :
            Filled(GetItem(pre_t, k)) =>
                /\ Returned
                /\ HasKey(dict_t, k)
                /\ GetItem(dict_t, k) = GetItem(pre_t, k)

(* C3: in provide-default mode, when the call returns, a target value that
   is None, empty or a str holding "{{" or "{%" has been overwritten by the
   plain source value of the same key. *)
C3_DefaultFillsUnfilled ==
    (Merged /\ provide_default /\ Returned) =>
        \A k \in PlainShared(dict_o, pre_t) :
            Unfilled(GetItem(pre_t, k)) =>
                HasKey(dict_t, k) /\ GetItem(dict_t, k) = GetItem(dict_o, k)

(* C4: for a source key holding a dict, when the call returns: if the target
   held a dict there it still does, its sub-keys the source does not name
   keep their values, and (provide-default off) the plain sub-values of the
   source are stored in it; if the target held anything else or nothing, the
   target now holds the source dict. *)
C4_RecurseOrSourceWins ==
    (Merged /\ Returned) =>
        \A k \in KeysOf(dict_o) :
            LET v == GetItem(dict_o, k)
            IN  IsDict(v) =>
                    /\ HasKey(dict_t, k)
                    /\ IF TargetIsDict(pre_t, k)
                       THEN LET old == GetItem(pre_t, k)
                                new == GetItem(dict_t, k)
                            IN  /\ IsDict(new)
                                /\ \A j \in KeysOf(old) \ KeysOf(v) :
                                      HasKey(new, j) /\ GetItem(new, j) = GetItem(old, j)
                                /\ ~provide_default =>
                                      \A j \in KeysOf(v) :
                                          (~IsNone(GetItem(v, j)) /\ ~IsDict(GetItem(v, j)))
                                              => HasKey(new, j) /\ GetItem(new, j) = GetItem(v, j)
                       ELSE GetItem(dict_t, k) = v

(* C4 witness: a recursive merge that kept a sub-key of the target, next to
   a type conflict that the source dict won *)
C4_Witness ==
    /\ Merged /\ Returned
    /\ HasKey(dict_o, kA) /\ GetItem(dict_o, kA) = PyDict(<<Item(kA, PyInt(5))>>)
    /\ HasKey(dict_o, kB) /\ IsDict(GetItem(dict_o, kB))
    /\ TargetIsDict(pre_t, kA) /\ KeysOf(GetItem(pre_t, kA)) = {kA, kB}
    /\ HasKey(pre_t, kB) /\ ~IsDict(GetItem(pre_t, kB))
    /\ GetItem(GetItem(dict_t, kA), kA) = PyInt(5)
    /\ GetItem(GetItem(dict_t, kA), kB) = GetItem(GetItem(pre_t, kA), kB)
    /\ GetItem(dict_t, kB) = GetItem(dict_o, kB)

-----------------------------------------------------------------------------
(* flatten_dict and structure_dict *)

(* flat_dict.update(r) *)
RECURSIVE DictUpdate(_, _, _)
DictUpdate(d, ritems, i) ==
    IF i > Len(ritems) THEN d
    ELSE DictUpdate(SetItem(d, ritems[i].k, ritems[i].v), ritems, i + 1)

(* k in keys, for keys a list of str *)
InKeyList(k, ks) == \E i \in 1..Len(ks.l) : ks.l[i] = PyStr(k)

(* a plausible slip: only a given, non-empty list selects anything *)
MutKeySelected(k, ks) == IsList(ks) /\ InKeyList(k, ks)

(* not keys or k in keys: None and the empty list are both falsy *)
KeySelected(k, ks) ==
    \/ IsNone(ks)
    \/ Len(ks.l) = 0
    \/ InKeyList(k, ks)

(* flat_dict[k] = v *)
FlatStore(flat, k, v) == SetItem(flat, k, v)

RECURSIVE FlattenFrom(_, _, _, _)
(* The loop of flatten_dict from the i-th item on; the recursive call passes
   no keys. *)
FlattenFrom(items, i, ks, flat) ==
    IF i > Len(items) THEN flat
    ELSE
        LET k == items[i].k
            v == items[i].v
        IN  IF KeySelected(k, ks) THEN
                IF IsDict(v)
                THEN FlattenFrom(items, i + 1, ks,
                                 DictUpdate(flat, FlattenFrom(v.m, 1, PyNone, EmptyDict).m, 1))
                ELSE FlattenFrom(items, i + 1, ks, FlatStore(flat, k, v))
            ELSE FlattenFrom(items, i + 1, ks, flat)

flatten_dict(dictionary, ks) == FlattenFrom(dictionary.m, 1, ks, EmptyDict)

(* if r: an empty dict is falsy *)
KeepStructured(r) == Len(r.m) > 0

RECURSIVE StructureFrom(_, _, _, _)
(* The loop of structure_dict over the template's items *)
StructureFrom(titems, i, o, struct_dict) ==
    IF i > Len(titems) THEN struct_dict
    ELSE
        LET k == titems[i].k
            v == titems[i].v
        IN  IF IsDict(v) THEN
                LET r == StructureFrom(v.m, 1, o, EmptyDict)
                IN  IF KeepStructured(r)
                    THEN StructureFrom(titems, i + 1, o, SetItem(struct_dict, k, r))
                    ELSE StructureFrom(titems, i + 1, o, struct_dict)
            ELSE IF HasKey(o, k)
                THEN StructureFrom(titems, i + 1, o, SetItem(struct_dict, k, GetItem(o, k)))
                ELSE StructureFrom(titems, i + 1, o, struct_dict)

structure_dict(o, t) == StructureFrom(t.m, 1, o, EmptyDict)

(* dicts over the keys a, b in either order *)
OrderedDictsAB(Vals) ==
    DictsAB(Vals) \cup {PyDict(<<Item(kB, v), Item(kA, w)>>) : v \in Vals, w \in Vals}

FlatLeaves == {PyNone, PyInt(1), PyInt(2)}
FlatInner == OrderedDictsAB({PyInt(1), PyInt(2)} \cup DictsA({PyInt(3)}))
FlatDocs == OrderedDictsAB(FlatLeaves \cup FlatInner)
FlatKeyArgs == {PyNone, PyList(<<>>), PyList(<<PyStr(kA)>>), PyList(<<PyStr(kB)>>)}
(* a template whose shape differs from the documents' *)
FlatTemplate ==
    PyDict(<<Item(kB, PyDict(<<Item(kA, PyInt(0))>>)), Item(<<"c">>, PyInt(0))>>)

InitFlat ==
    /\ op = "none"
    /\ dict_o \in FlatDocs
    /\ dict_t \in {dict_o, FlatTemplate}
    /\ pre_t = dict_t
    /\ provide_default = FALSE
    /\ keys \in FlatKeyArgs
    /\ keys_regex = <<>>
    /\ ret = PyNone
    /\ exc = "none"
    /\ calls = 0
    /\ NoLoader
    /\ NoMain
    /\ NoHeap

(* cfg = flatten_dict(cfg, keys) *)
CallFlattenDict ==
    /\ calls < MaxCalls
    /\ op = "none"
    /\ ret' = flatten_dict(dict_o, keys)
    /\ op' = "flatten_dict"
    /\ calls' = calls + 1
    /\ UNCHANGED <<dict_o, dict_t, pre_t, provide_default, keys, keys_regex, exc>>
    /\ UNCHANGED loaderVars
    /\ UNCHANGED mainVars
    /\ UNCHANGED heap

(* cfg = structure_dict(cfg, cfg_t), on the flattened cfg *)
CallStructureDict ==
    /\ calls < MaxCalls
    /\ op = "flatten_dict"
    /\ ret' = structure_dict(ret, dict_t)
    /\ op' = "structure_dict"
    /\ calls' = calls + 1
    /\ UNCHANGED <<dict_o, dict_t, pre_t, provide_default, keys, keys_regex, exc>>
    /\ UNCHANGED loaderVars
    /\ UNCHANGED mainVars
    /\ UNCHANGED heap

NextFlat == CallFlattenDict \/ CallStructureDict

SpecFlat == InitFlat /\ [][NextFlat]_vars

-----------------------------------------------------------------------------
(* Properties of flatten_dict and structure_dict *)

RECURSIVE LeafItems(_, _)
(* the non-dict entries below a list of items, at any depth, in the order a
   depth-first walk in insertion order meets them *)
LeafItems(items, i) ==
    IF i > Len(items) THEN <<>>
    ELSE (IF IsDict(items[i].v) THEN LeafItems(items[i].v.m, 1) ELSE <<items[i]>>)
             \o LeafItems(items, i + 1)

(* no leaf key occurs on two paths of d *)
NoDupLeaf(d) ==
    LET ls == LeafItems(d.m, 1)
    IN  \A i, j \in 1..Len(ls) : i # j => ls[i].k # ls[j].k

RECURSIVE HasEmptySub(_)
(* some dict nested in d, at any depth, is empty *)
HasEmptySub(d) ==
    \E i \in 1..Len(d.m) :
        IsDict(d.m[i].v) /\ (Len(d.m[i].v.m) = 0 \/ HasEmptySub(d.m[i].v))

RoundTripped == op = "structure_dict" /\ dict_t = dict_o /\ IsNone(keys)

(* C5 as claimed: for every d without a duplicated leaf key, empty
   sub-dicts included, structure_dict(flatten_dict(d), d) equals d. *)
C5_RoundTripAnyDict ==
    (RoundTripped /\ NoDupLeaf(dict_o)) => PyEq(ret, dict_o)

(* C5 amended: for every d without a duplicated leaf key and without an
   empty dict nested in it (None leaves allowed),
   structure_dict(flatten_dict(d), d) equals d. *)
C5_RoundTripNoEmptySub ==
    (RoundTripped /\ NoDupLeaf(dict_o) /\ ~HasEmptySub(dict_o)) => PyEq(ret, dict_o)

(* C5 witness: a round trip of a two-level d holding a None leaf *)
C5_Witness ==
    /\ RoundTripped /\ NoDupLeaf(dict_o) /\ ~HasEmptySub(dict_o)
    /\ \E i \in 1..Len(dict_o.m) : IsDict(dict_o.m[i].v)
    /\ \E i \in 1..Len(dict_o.m) : IsNone(dict_o.m[i].v)
    /\ ret = dict_o

(* What flatten_dict must return when the top-level items `sel` are the ones
   that contribute: no dict among the values, exactly the leaf keys below
   `sel` as keys, each with the value of the last leaf of that key in
   traversal order. *)
FlattenOf(flat, sel) ==
    LET ls == LeafItems(sel, 1)
        LastOf(k) == CHOOSE i \in 1..Len(ls) :
                        /\ ls[i].k = k
                        /\ \A j \in (i + 1)..Len(ls) : ls[j].k # k
    IN  /\ \A i \in 1..Len(flat.m) : ~IsDict(flat.m[i].v)
        /\ KeysOf(flat) = {ls[i].k : i \in 1..Len(ls)}
        /\ \A k \in KeysOf(flat) : GetItem(flat, k) = ls[LastOf(k)].v

(* the top-level items of d whose key is in the list ks *)
ItemsIn(d, ks) == SelectSeq(d.m, LAMBDA e : InKeyList(e.k, ks))

(* C6 as claimed: the result is one level deep, holds every leaf key with the
   value visited last, and, whenever a key list is given, only the subtrees
   under the listed top-level keys contribute. *)
C6_FlattenSubsetGiven ==
    op = "flatten_dict" =>
        FlattenOf(ret, IF IsList(keys) THEN ItemsIn(dict_o, keys) ELSE dict_o.m)

(* C6 amended: the same, where only a non-empty key list restricts the
   top-level keys; None and the empty list both select every key. *)
C6_FlattenNonEmptySubset ==
    op = "flatten_dict" =>
        FlattenOf(ret, IF IsList(keys) /\ Len(keys.l) > 0
                       THEN ItemsIn(dict_o, keys) ELSE dict_o.m)

(* C6 witness: keys = ["b"]; a leaf key met at two depths kept the value
   visited last, and a deeper key outside the list was flattened *)
C6_Witness ==
    /\ op = "flatten_dict"
    /\ keys = PyList(<<PyStr(kB)>>)
    /\ HasKey(dict_o, kA) /\ HasKey(dict_o, kB)
    /\ GetItem(dict_o, kB) =
          PyDict(<<Item(kB, PyInt(1)), Item(kA, PyDict(<<Item(kA, PyInt(3))>>))>>)
    /\ ret = PyDict(<<Item(kB, PyInt(1)), Item(kA, PyInt(3))>>)

(* C6 witness of the last-visited rule: the same leaf key on two paths *)
C6_WitnessCollision ==
    /\ op = "flatten_dict"
    /\ IsNone(keys)
    /\ dict_o = PyDict(<<Item(kA, PyDict(<<Item(kB, PyInt(1))>>)), Item(kB, PyInt(2))>>)
    /\ ret = PyDict(<<Item(kB, PyInt(2))>>)

-----------------------------------------------------------------------------
(* check_structure_dict *)

RECURSIVE CheckFrom(_, _, _, _)
(* The loop of check_structure_dict over the candidate's items; the invalid
   entries of a nested dict are merged into the result with inval.update(r) *)
CheckFrom(items, i, t, inval) ==
    IF i > Len(items) THEN inval
    ELSE
        LET k == items[i].k
            v == items[i].v
        IN  IF HasKey(t, k) THEN
                LET v1 == GetItem(t, k)
                IN  IF IsDict(v) /\ IsDict(v1) THEN
                        LET r == CheckFrom(v.m, 1, v1, EmptyDict)
                        IN  IF Len(r.m) > 0
                            THEN CheckFrom(items, i + 1, t, DictUpdate(inval, r.m, 1))
                            ELSE CheckFrom(items, i + 1, t, inval)
                    ELSE CheckFrom(items, i + 1, t, inval)
            ELSE CheckFrom(items, i + 1, t, SetItem(inval, k, v))

check_structure_dict(o, t) == CheckFrom(o.m, 1, t, EmptyDict)

CheckCandidates == OrderedDictsAB({PyInt(1), PyInt(2)} \cup DictsAB({PyInt(1), PyInt(2)}))
CheckTemplates == DictsAB({PyInt(0)} \cup DictsAB({PyInt(0)}))

InitCheck ==
    /\ op = "none"
    /\ dict_o \in CheckCandidates
    /\ dict_t \in CheckTemplates
    /\ pre_t = dict_t
    /\ provide_default = FALSE
    /\ keys = PyNone
    /\ keys_regex = <<>>
    /\ ret = PyNone
    /\ exc = "none"
    /\ calls = 0
    /\ NoLoader
    /\ NoMain
    /\ NoHeap

(* r = check_structure_dict(cfg, cfg_t) *)
CallCheckStructureDict ==
    /\ calls < MaxCalls
    /\ op = "none"
    /\ ret' = check_structure_dict(dict_o, dict_t)
    /\ op' = "check_structure_dict"
    /\ calls' = calls + 1
    /\ UNCHANGED <<dict_o, dict_t, pre_t, provide_default, keys, keys_regex, exc>>
    /\ UNCHANGED loaderVars
    /\ UNCHANGED mainVars
    /\ UNCHANGED heap

NextCheck == CallCheckStructureDict

SpecCheck == InitCheck /\ [][NextCheck]_vars

-----------------------------------------------------------------------------
(* Properties of check_structure_dict *)

Checked == op = "check_structure_dict"

RECURSIVE InvalidEntries(_, _)
(* the entries of c, at any depth, whose key the template lacks at the same
   path; nested dicts are entered where candidate and template both hold one *)
InvalidEntries(c, t) ==
    {Item(k, GetItem(c, k)) : k \in KeysOf(c) \ KeysOf(t)}
        \cup UNION {InvalidEntries(GetItem(c, k), GetItem(t, k)) :
                        k \in {x \in KeysOf(c) \cap KeysOf(t) :
                                  IsDict(GetItem(c, x)) /\ IsDict(GetItem(t, x))}}

(* C7: the result holds every candidate key the template lacks at the same
   nesting level, with its candidate value, those found recursively under
   keys that both hold with dict values included, and it holds nothing else
   (no entry whose key candidate and template both have). *)
C7_ExactlyInvalidEntries ==
    Checked =>
        /\ \A e \in InvalidEntries(dict_o, dict_t) :
              HasKey(ret, e.k) /\ GetItem(ret, e.k) = e.v
        /\ \A i \in 1..Len(ret.m) : ret.m[i] \in InvalidEntries(dict_o, dict_t)

RECURSIVE StructurallyValid(_, _)
(* every key of c, at every depth, exists in t at the same path, a dict
   facing a dict and a plain value facing a plain value *)
StructurallyValid(c, t) ==
    \A k \in KeysOf(c) :
        /\ HasKey(t, k)
        /\ IsDict(GetItem(c, k)) <=> IsDict(GetItem(t, k))
        /\ IsDict(GetItem(c, k)) => StructurallyValid(GetItem(c, k), GetItem(t, k))

(* C8: an empty result means the candidate is structurally valid. *)
C8_EmptyMeansValid ==
    (Checked /\ Len(ret.m) = 0) => StructurallyValid(dict_o, dict_t)

-----------------------------------------------------------------------------
(* filter_dict *)

(* one pattern character against one character of the key; "." matches any
   character (keys hold no newline) *)
CharMatches(pc, c) == pc = "." \/ pc = c

RECURSIVE MatchHere(_, _, _, _)
(* the pattern p from position i on matches some prefix of s[j..]; patterns
   are literals, "." and a postfix "*" *)
MatchHere(p, i, s, j) ==
    IF i > Len(p) THEN TRUE
    ELSE IF i + 1 <= Len(p) /\ p[i + 1] = "*" THEN
        \/ MatchHere(p, i + 2, s, j)
        \/ j <= Len(s) /\ CharMatches(p[i], s[j]) /\ MatchHere(p, i, s, j + 1)
    ELSE j <= Len(s) /\ CharMatches(p[i], s[j]) /\ MatchHere(p, i + 1, s, j + 1)

(* a plausible slip: r.search, which accepts a match at any position *)
MutReMatch(p, s) == \E j \in 1..(Len(s) + 1) : MatchHere(p, 1, s, j)

(* r.match(key): a match starting at the first character of the key *)
ReMatch(p, s) == MatchHere(p, 1, s, 1)

(* list(filter(r.match, dict_o.keys())) *)
MatchingKeys(p, d) ==
    LET ks == [i \in 1..Len(d.m) |-> d.m[i].k]
    IN  SelectSeq(ks, LAMBDA k : ReMatch(p, k))

RECURSIVE CollectKeys(_, _, _, _)
(* the loop over keys_regex: keys += the matching keys of each pattern *)
CollectKeys(regexes, i, d, ks) ==
    IF i > Len(regexes) THEN ks
    ELSE CollectKeys(regexes, i + 1, d, ks \o MatchingKeys(regexes[i], d))

RECURSIVE DictFromKeys(_, _, _, _)
(* {k: dict_o[k] for k in keys} *)
DictFromKeys(ks, i, d, acc) ==
    IF i > Len(ks) THEN acc
    ELSE DictFromKeys(ks, i + 1, d, SetItem(acc, ks[i], GetItem(d, ks[i])))

filter_dict(d, regexes) == DictFromKeys(CollectKeys(regexes, 1, d, <<>>), 1, d, EmptyDict)

FilterKeyPool == <<(<<"a", "a">>), (<<"a", "b">>), (<<"c">>), (<<"b", "a">>)>>

RECURSIVE DictsOverPool(_, _)
(* dicts whose keys are taken, in order, from FilterKeyPool[i..] *)
DictsOverPool(i, Vals) ==
    IF i > Len(FilterKeyPool) THEN {EmptyDict}
    ELSE LET rest == DictsOverPool(i + 1, Vals)
         IN  rest \cup {PyDict(<<Item(FilterKeyPool[i], v)>> \o d.m) : v \in Vals, d \in rest}

FilterDicts == DictsOverPool(1, {PyInt(1), PyInt(2)})

FilterPatterns ==
    { <<"a", ".", "*">>, <<"a">>, <<"b">>, <<".", "b">>, <<"c", "*">>, <<"a", "b">> }

FilterPatternLists ==
    {<<>>} \cup {<<p>> : p \in FilterPatterns}
           \cup {<<p, q>> : p \in FilterPatterns, q \in FilterPatterns}

InitFilter ==
    /\ op = "none"
    /\ dict_o \in FilterDicts
    /\ dict_t = EmptyDict
    /\ pre_t = dict_t
    /\ provide_default = FALSE
    /\ keys = PyNone
    /\ keys_regex \in FilterPatternLists
    /\ ret = PyNone
    /\ exc = "none"
    /\ calls = 0
    /\ NoLoader
    /\ NoMain
    /\ NoHeap

(* cfg = filter_dict(cfg, keys) *)
CallFilterDict ==
    /\ calls < MaxCalls
    /\ op = "none"
    /\ ret' = filter_dict(dict_o, keys_regex)
    /\ op' = "filter_dict"
    /\ calls' = calls + 1
    /\ UNCHANGED <<dict_o, dict_t, pre_t, provide_default, keys, keys_regex, exc>>
    /\ UNCHANGED loaderVars
    /\ UNCHANGED mainVars
    /\ UNCHANGED heap

NextFilter == CallFilterDict

SpecFilter == InitFilter /\ [][NextFilter]_vars

-----------------------------------------------------------------------------
(* Properties of filter_dict *)

(* the atoms of a pattern: a character class and whether "*" follows it *)
RECURSIVE Atoms(_, _)
Atoms(p, i) ==
    IF i > Len(p) THEN <<>>
    ELSE IF i + 1 <= Len(p) /\ p[i + 1] = "*"
        THEN <<[c |-> p[i], star |-> TRUE]>> \o Atoms(p, i + 2)
        ELSE <<[c |-> p[i], star |-> FALSE]>> \o Atoms(p, i + 1)

RECURSIVE InLanguage(_, _, _)
(* the word w, whole, belongs to the language of the atoms as[i..] *)
InLanguage(as, i, w) ==
    IF i > Len(as) THEN Len(w) = 0
    ELSE IF as[i].star THEN
        \E n \in 0..Len(w) :
            /\ \A j \in 1..n : as[i].c = "." \/ as[i].c = w[j]
            /\ InLanguage(as, i + 1, SubSeq(w, n + 1, Len(w)))
    ELSE /\ Len(w) >= 1
         /\ as[i].c = "." \/ as[i].c = w[1]
         /\ InLanguage(as, i + 1, Tail(w))

(* the pattern matches the key anchored at its start: some prefix of the key
   is a word of the pattern *)
MatchesAtStart(p, k) ==
    \E n \in 0..Len(k) : InLanguage(Atoms(p, 1), 1, SubSeq(k, 1, n))

(* C9: filter_dict returns exactly the top-level keys that some pattern
   matches anchored at the start of the key, each once and with the value it
   has in the input. *)
C9_FilterKeepsMatchedKeys ==
    op = "filter_dict" =>
        /\ KeysOf(ret) =
              {k \in KeysOf(dict_o) :
                  \E i \in 1..Len(keys_regex) : MatchesAtStart(keys_regex[i], k)}
        /\ \A k \in KeysOf(ret) : GetItem(ret, k) = GetItem(dict_o, k)
        /\ Cardinality(KeysOf(ret)) = Len(ret.m)

(* C9 witness: filter({"aa": 1, "ab": 2, "c": .., "ba": ..}, ["a.*", "a"])
   yields {"aa": 1, "ab": 2}: two patterns match the same keys, and "ba",
   which holds an "a" past its start, is left out *)
C9_Witness ==
    /\ op = "filter_dict"
    /\ keys_regex = << <<"a", ".", "*">>, <<"a">> >>
    /\ KeysOf(dict_o) = {<<"a", "a">>, <<"a", "b">>, <<"c">>, <<"b", "a">>}
    /\ ret = PyDict(<<Item(<<"a", "a">>, PyInt(1)), Item(<<"a", "b">>, PyInt(2))>>)

-----------------------------------------------------------------------------
(* str(), repr() and the type coercion applied to rendered text *)

Digits == <<"0", "1", "2", "3", "4", "5", "6", "7", "8", "9">>

RECURSIVE IntToStr(_)
(* str(n) for an int n >= 0 *)
IntToStr(n) ==
    IF n < 10 THEN <<Digits[n + 1]>>
    ELSE IntToStr(n \div 10) \o <<Digits[(n % 10) + 1]>>

IsDigit(c) == \E i \in 1..Len(Digits) : Digits[i] = c
DigitValue(c) == (CHOOSE i \in 1..Len(Digits) : Digits[i] = c) - 1

RECURSIVE StrToInt(_, _)
(* int(s) for a str of digits, read from the left with the value so far *)
StrToInt(s, acc) ==
    IF Len(s) = 0 THEN acc ELSE StrToInt(Tail(s), acc * 10 + DigitValue(s[1]))

sTrue == <<"T", "r", "u", "e">>
sFalse == <<"F", "a", "l", "s", "e">>
sNone == <<"N", "o", "n", "e">>

RECURSIVE PyRepr(_)
RECURSIVE JoinRepr(_, _)
(* ", ".join(repr(e) for e in l[i:]) *)
JoinRepr(l, i) ==
    IF i > Len(l) THEN <<>>
    ELSE PyRepr(l[i]) \o (IF i < Len(l) THEN <<",", " ">> ELSE <<>>) \o JoinRepr(l, i + 1)

RECURSIVE JoinItems(_, _)
(* ", ".join(repr(k) + ": " + repr(v)) over the items m[i:] of a dict *)
JoinItems(m, i) ==
    IF i > Len(m) THEN <<>>
    ELSE <<"'">> \o m[i].k \o <<"'", ":", " ">> \o PyRepr(m[i].v)
             \o (IF i < Len(m) THEN <<",", " ">> ELSE <<>>) \o JoinItems(m, i + 1)

(* repr(x); a str is quoted with single quotes (the strings of the model hold
   no quote and no backslash) *)
PyRepr(x) ==
    IF IsStr(x) THEN <<"'">> \o x.s \o <<"'">>
    ELSE IF x.tag = "int" THEN IntToStr(x.i)
    ELSE IF x.tag = "bool" THEN (IF x.b THEN sTrue ELSE sFalse)
    ELSE IF IsNone(x) THEN sNone
    ELSE IF IsList(x) THEN <<"[">> \o JoinRepr(x.l, 1) \o <<"]">>
    ELSE <<"{">> \o JoinItems(x.m, 1) \o <<"}">>

(* str(x) *)
PyStrOf(x) == IF IsStr(x) THEN x.s ELSE PyRepr(x)

(* str_to_type: text that spells a boolean or an integer becomes that
   value, any other text stays a str *)
str_to_type(s) ==
    IF s = sTrue THEN PyBool(TRUE)
    ELSE IF s = sFalse THEN PyBool(FALSE)
    ELSE IF Len(s) > 0 /\ \A i \in 1..Len(s) : IsDigit(s[i]) THEN PyInt(StrToInt(s, 0))
    ELSE PyStr(s)

-----------------------------------------------------------------------------
(* extend_yaml *)

(* the dict found in doc by following the keys of path *)
RECURSIVE GetPath(_, _)
GetPath(d, path) ==
    IF Len(path) = 0 THEN d ELSE GetPath(GetItem(d, path[1]), Tail(path))

(* doc after the in-place assignment GetPath(doc, path)[k] = v *)
RECURSIVE SetPath(_, _, _, _)
SetPath(d, path, k, v) ==
    IF Len(path) = 0 THEN SetItem(d, k, v)
    ELSE SetItem(d, path[1], SetPath(GetItem(d, path[1]), Tail(path), k, v))

(* a plausible slip: every value is taken for a template *)
MutIsATemplate(v_str) == TRUE

(* is_a_template: "{{" or "{%" occurs in v_str *)
IsATemplate(v_str) == Contains(v_str, OpenExpr) \/ Contains(v_str, OpenStmt)

(* position of the first occurrence of sub in s at or after i, Len(s) + 1 if
   there is none *)
NextPos(sub, s, i) ==
    LET hits == {j \in i..Len(s) : OccursAt(sub, s, j)}
    IN  IF hits = {} THEN Len(s) + 1
        ELSE CHOOSE j \in hits : \A l \in hits : j <= l

(* re.finditer(r"{{[^}]*}}|\S", v_str), keeping the matches that hold "{{":
   the first alternative matches at a "{{" when the first "}" after it is
   doubled; otherwise the second alternative consumes that one character and
   the scan goes on behind it *)
RECURSIVE FindTemplates(_, _)
FindTemplates(s, i) ==
    LET o == NextPos(OpenExpr, s, i)
    IN  IF o > Len(s) THEN <<>>
        ELSE
            LET j == NextPos(<<"}">>, s, o + 2)
            IN  IF j + 1 <= Len(s) /\ s[j + 1] = "}"
                THEN <<SubSeq(s, o, j + 1)>> \o FindTemplates(s, j + 2)
                ELSE FindTemplates(s, o + 1)

(* the units of v_str: the whole text when it holds "{%" *)
Templates(v_str) ==
    IF Contains(v_str, OpenStmt) THEN <<v_str>> ELSE FindTemplates(v_str, 1)

RECURSIVE Strip(_)
(* s without leading and trailing blanks *)
Strip(s) ==
    IF Len(s) > 0 /\ s[1] = " " THEN Strip(Tail(s))
    ELSE IF Len(s) > 0 /\ s[Len(s)] = " " THEN Strip(SubSeq(s, 1, Len(s) - 1))
    ELSE s

Letters == {"a", "b", "c", "p", "e", "r", "n", "t", "x"}
IsIdentifier(s) == Len(s) > 0 /\ \A i \in 1..Len(s) : s[i] \in Letters

(* the expression between the braces of a "{{ ... }}" unit *)
ExprOf(template) == Strip(SubSeq(template, 3, Len(template) - 2))

(* expressions whose evaluation raises: 1/0, range(0,1,0) and 2.0**9999 *)
ExprZeroDivision == <<"1", "/", "0">>
ExprValueError == <<"r", "a", "n", "g", "e", "(", "0", ",", "1", ",", "0", ")">>
ExprOverflow == <<"2", ".", "0", "*", "*", "9", "9", "9", "9">>
RaisingExprs == {ExprZeroDivision, ExprValueError, ExprOverflow}

FilterString == <<"|", "s", "t", "r", "i", "n", "g">>

(* expr ends with the filter "|string" *)
HasStringFilter(expr) ==
    /\ Len(expr) > Len(FilterString)
    /\ SubSeq(expr, Len(expr) - Len(FilterString) + 1, Len(expr)) = FilterString

(* the variable an expression "name" or "name|string" reads *)
VarOf(expr) ==
    IF HasStringFilter(expr) THEN Strip(SubSeq(expr, 1, Len(expr) - Len(FilterString)))
    ELSE expr

(* j2env.from_string(template): a unit compiles when its expression is a
   variable name, possibly piped through the string filter, or one of the
   arithmetic expressions above; a "{% x %}" block names an unknown tag, an
   empty or malformed expression is a syntax error *)
Compiles(template) ==
    /\ ~Contains(template, OpenStmt)
    /\ \/ IsIdentifier(VarOf(ExprOf(template)))
       \/ ExprOf(template) \in RaisingExprs

kParent == <<"p", "a", "r", "e", "n", "t">>

(* a plausible slip: the two dicts are merged instead of being passed as two
   sets of keyword arguments *)
MutKwargsCollide(yaml_dict, full_dict) == FALSE

(* render(parent=parent, **yaml_dict, **full_dict) raises TypeError (multiple
   values for a keyword argument) when a key occurs in both dicts or when
   either holds the key "parent" *)
KwargsCollide(yaml_dict, full_dict) ==
    \/ KeysOf(yaml_dict) \cap KeysOf(full_dict) # {}
    \/ kParent \in KeysOf(yaml_dict) \cup KeysOf(full_dict)

(* Rendering one compiled unit: the text it yields, or the exception that
   render raised *)
Render(template, yaml_dict, full_dict, parent) ==
    LET expr == ExprOf(template)
        name == VarOf(expr)
    IN  IF KwargsCollide(yaml_dict, full_dict) THEN [out |-> <<>>, err |-> "TypeError"]
        ELSE IF expr = ExprZeroDivision THEN [out |-> <<>>, err |-> "ZeroDivisionError"]
        ELSE IF expr = ExprValueError THEN [out |-> <<>>, err |-> "ValueError"]
        ELSE IF expr = ExprOverflow THEN [out |-> <<>>, err |-> "OverflowError"]
        ELSE IF name = kParent THEN [out |-> PyStrOf(parent), err |-> "none"]
        ELSE IF HasKey(yaml_dict, name)
            THEN [out |-> PyStrOf(GetItem(yaml_dict, name)), err |-> "none"]
        ELSE IF HasKey(full_dict, name)
            THEN [out |-> PyStrOf(GetItem(full_dict, name)), err |-> "none"]
        ELSE [out |-> <<>>, err |-> "UndefinedError"]

(* a plausible slip: ZeroDivisionError is not among the swallowed ones *)
MutSwallowed == {"UndefinedError", "ValueError", "TypeError"}

(* the exceptions of render that the loop swallows *)
Swallowed == {"UndefinedError", "ValueError", "TypeError", "ZeroDivisionError"}

RECURSIVE RenderAll(_, _, _, _, _)
(* The loop over templates: data holds, for each unit, its rendered text, or
   the unit itself when render raised a swallowed exception.  exc is the
   exception that left the loop. *)
RenderAll(templates, i, yaml_dict, full_dict, parent) ==
    IF i > Len(templates) THEN [data |-> <<>>, exc |-> "none"]
    ELSE IF ~Compiles(templates[i]) THEN [data |-> <<>>, exc |-> "TemplateSyntaxError"]
    ELSE
        LET r == Render(templates[i], yaml_dict, full_dict, parent)
            rest == RenderAll(templates, i + 1, yaml_dict, full_dict, parent)
        IN  IF r.err = "none"
            THEN [data |-> <<r.out>> \o rest.data, exc |-> rest.exc]
            ELSE IF r.err \in Swallowed
            THEN [data |-> <<templates[i]>> \o rest.data, exc |-> rest.exc]
            ELSE [data |-> <<>>, exc |-> r.err]

RECURSIVE Replace(_, _, _, _)
(* s[i:].replace(old, new), for a non-empty old: the occurrences are replaced
   from the left, without overlap *)
Replace(s, i, old, new) ==
    LET j == NextPos(old, s, i)
    IN  IF j > Len(s) THEN SubSeq(s, i, Len(s))
        ELSE SubSeq(s, i, j - 1) \o new \o Replace(s, j + Len(old), old, new)

RECURSIVE Substitute(_, _, _, _)
(* for tmpl, rendered in zip(templates, data): v_str = v_str.replace(...) *)
Substitute(v_str, templates, data, i) ==
    IF i > Len(templates) \/ i > Len(data) THEN v_str
    ELSE Strict(LAMBDA replaced : Substitute(replaced, templates, data, i + 1),
                Replace(v_str, 1, templates[i], data[i]))

sString == <<"s", "t", "r", "i", "n", "g">>

(* a plausible slip: the text "string" in a unit is not looked at *)
MutConvertType(templates) == TRUE

(* convert_type: no unit holds the text "string" *)
ConvertType(templates) ==
    \A i \in 1..Len(templates) : ~Contains(templates[i], sString)

(* One element v of a value: the value to store back, whether one is stored,
   and the exception raised *)
ExtendElement(v, yaml_dict, full_dict, parent) ==
    LET v_str == PyStrOf(v)
    IN  IF ~IsATemplate(v_str) THEN [stored |-> FALSE, val |-> v, exc |-> "none"]
        ELSE
            LET templates == Templates(v_str)
                r == RenderAll(templates, 1, yaml_dict, full_dict, parent)
                filled == Substitute(v_str, templates, r.data, 1)
            IN  IF r.exc # "none" THEN [stored |-> FALSE, val |-> v, exc |-> r.exc]
                ELSE [stored |-> TRUE,
                      val |-> IF ConvertType(templates) THEN str_to_type(filled)
                              ELSE PyStr(filled),
                      exc |-> "none"]

(* the scope of the dict at path: the dict itself, the root (full_dict), and
   the dict that holds it (None for the root) *)
ParentOf(doc, path) ==
    IF Len(path) = 0 THEN PyNone ELSE GetPath(doc, SubSeq(path, 1, Len(path) - 1))

RECURSIVE ExtendList(_, _, _, _)
(* for v_idx, v in enumerate(val), for the list under key k of the dict at
   path: yaml_dict[k][v_idx] = v_str *)
ExtendList(doc, path, k, idx) ==
    LET yaml_dict == GetPath(doc, path)
        val == GetItem(yaml_dict, k)
    IN  IF idx > Len(val.l) THEN [doc |-> doc, exc |-> "none"]
        ELSE
            Strict(LAMBDA r :
                       IF r.exc # "none" THEN [doc |-> doc, exc |-> r.exc]
                       ELSE IF r.stored
                       THEN Strict(LAMBDA doc2 : ExtendList(doc2, path, k, idx + 1),
                                   SetPath(doc, path, k,
                                           PyList([val.l EXCEPT ![idx] = r.val])))
                       ELSE ExtendList(doc, path, k, idx + 1),
                   ExtendElement(val.l[idx], yaml_dict, doc, ParentOf(doc, path)))

RECURSIVE ExtendDict(_, _, _)
(* for k, val in yaml_dict.items(), from the i-th item of the dict at path
   on; doc is the whole document as mutated so far *)
ExtendDict(doc, path, i) ==
    LET yaml_dict == GetPath(doc, path)
    IN  IF i > Len(yaml_dict.m) THEN [doc |-> doc, exc |-> "none"]
        ELSE
            LET k == yaml_dict.m[i].k
                val == yaml_dict.m[i].v
            IN  IF IsDict(val) THEN
                    Strict(LAMBDA r :
                               IF r.exc # "none" THEN r ELSE ExtendDict(r.doc, path, i + 1),
                           ExtendDict(doc, Append(path, k), 1))
                ELSE IF IsList(val) THEN
                    Strict(LAMBDA r :
                               IF r.exc # "none" THEN r ELSE ExtendDict(r.doc, path, i + 1),
                           ExtendList(doc, path, k, 1))
                ELSE
                    Strict(LAMBDA r :
                               IF r.exc # "none" THEN [doc |-> doc, exc |-> r.exc]
                               ELSE IF r.stored
                               THEN Strict(LAMBDA doc2 : ExtendDict(doc2, path, i + 1),
                                           SetPath(doc, path, k, r.val))
                               ELSE ExtendDict(doc, path, i + 1),
                           ExtendElement(val, yaml_dict, doc, ParentOf(doc, path)))

(* extend_yaml(yaml_dict) on a whole document *)
extend_yaml(doc) == ExtendDict(doc, <<>>, 1)

kX == <<"x">>
kC == <<"c">>

(* dicts over the keys k1, k2 (in that order) with values from Vals *)
DictsOver(k1, k2, Vals) ==
    {EmptyDict}
        \cup {PyDict(<<Item(k, v)>>) : k \in {k1, k2}, v \in Vals}
        \cup {PyDict(<<Item(k1, v), Item(k2, w)>>) : v \in Vals, w \in Vals}

sExprB == PyStr(<<"{", "{", "b", "}", "}">>)
sExprC == PyStr(<<"{", "{", "c", "}", "}">>)
sExprASpaced == PyStr(<<"{", "{", " ", "a", " ", "}", "}">>)
sExprAB == PyStr(<<"{", "{", "a", "}", "}", "-", "{", "{", "b", "}", "}">>)

sExprAN == PyStr(<<"{", "{", "a", "}", "}", "-", "{", "{", "n", "}", "}">>)
sExprAString ==
    PyStr(<<"{", "{", "a", "|", "s", "t", "r", "i", "n", "g", "}", "}">>)
sExprZeroDivision == PyStr(<<"{", "{">> \o ExprZeroDivision \o <<"}", "}">>)
sExprValueError == PyStr(<<"{", "{">> \o ExprValueError \o <<"}", "}">>)
sExprOverflow == PyStr(<<"{", "{">> \o ExprOverflow \o <<"}", "}">>)
sExprZeroDivisionA ==
    PyStr(<<"{", "{">> \o ExprZeroDivision \o <<"}", "}", "-", "{", "{", "a", "}", "}">>)
sSeven == PyStr(<<"7">>)

(* values at the top level of a document *)
ExpandRootLeaves == {PyInt(1), sExprA, sStmt, sExprAN}
(* values inside the section x *)
ExpandSectionLeaves ==
    {PyInt(2), PyNone, PyBool(TRUE), sSeven, sExprA, sExprASpaced, sExprB, sExprC, sExprAB, sExprAString,
     sExprZeroDivision, sExprValueError, sExprOverflow, sExprZeroDivisionA,
     PyList(<<sExprA, sX>>), PyList(<<PyDict(<<Item(kC, sExprA)>>), sSeven>>)}

(* documents: the keys a, b at the top level, then an optional section x
   whose keys b, c may or may not occur at the top level too *)
ExpandDocs ==
    LET tops == DictsAB(ExpandRootLeaves)
        sections == DictsOver(kB, kC, ExpandSectionLeaves)
    IN  tops \cup {PyDict(Append(t.m, Item(kX, sec))) : t \in tops, sec \in sections}

InitExpand ==
    /\ op = "none"
    /\ dict_o = EmptyDict
    /\ dict_t \in ExpandDocs
    /\ pre_t = dict_t
    /\ provide_default = FALSE
    /\ keys = PyNone
    /\ keys_regex = <<>>
    /\ ret = PyNone
    /\ exc = "none"
    /\ calls = 0
    /\ NoLoader
    /\ NoMain
    /\ NoHeap

(* extend_yaml(cfg): the document is rewritten in place *)
CallExtendYaml ==
    /\ calls < MaxCalls
    /\ LET r == extend_yaml(dict_t)
       IN  /\ dict_t' = r.doc
           /\ exc' = r.exc
    /\ pre_t' = dict_t
    /\ op' = "extend_yaml"
    /\ ret' = PyNone
    /\ calls' = calls + 1
    /\ UNCHANGED <<dict_o, provide_default, keys, keys_regex>>
    /\ UNCHANGED loaderVars
    /\ UNCHANGED mainVars
    /\ UNCHANGED heap

NextExpand == CallExtendYaml

SpecExpand == InitExpand /\ [][NextExpand]_vars

-----------------------------------------------------------------------------
(* load_config_file *)

pYaml == <<"c", ".", "y", "a", "m", "l">>
pYml == <<"c", ".", "y", "m", "l">>
pJson == <<"c", ".", "j", "s", "o", "n">>
pIni == <<"c", ".", "i", "n", "i">>
pSh == <<"c", ".", "s", "h">>
pXml == <<"c", ".", "x", "m", "l">>
pTxt == <<"c", ".", "t", "x", "t">>
pUpper == <<"c", ".", "Y", "A", "M", "L">>
pBare == <<"c">>
pHidden == <<".", "i", "n", "i">>
pTemplate == <<"t", ".", "y", "a", "m", "l">>

(* the files that exist, and what they hold *)
ExistingFiles ==
    {pYaml, pYml, pJson, pIni, pSh, pXml, pTxt, pUpper, pBare, pHidden, pTemplate}
FileContents(path) == IF path = pTemplate THEN sStmt.s ELSE sX.s

(* os.path.isfile *)
IsFile(path) == path \in ExistingFiles

(* the largest member of a non-empty set of numbers *)
MaxOf(S) == CHOOSE i \in S : \A j \in S : j <= i

(* os.path.splitext(path)[1][1:]: what follows the last dot of the last
   path component, when a character other than a dot precedes that dot in
   the component *)
SplitExt(path) ==
    LET seps == {i \in 1..Len(path) : path[i] = "/"}
        sep == IF seps = {} THEN 0 ELSE MaxOf(seps)
        dots == {i \in (sep + 1)..Len(path) : path[i] = "."}
    IN  IF dots = {} THEN <<>>
        ELSE IF \E i \in (sep + 1)..(MaxOf(dots) - 1) : path[i] # "."
        THEN SubSeq(path, MaxOf(dots) + 1, Len(path))
        ELSE <<>>

(* render_jinja_template: the contents of the file, or the string itself,
   compiled and rendered with context.  A "{% x %}" block does not compile;
   a context that is no dict cannot be turned into the variables. *)
render_jinja_template(cfs, ctx) ==
    LET contents == IF IsFile(cfs) THEN FileContents(cfs) ELSE cfs
    IN  IF Contains(contents, OpenStmt) THEN [out |-> <<>>, exc |-> "TemplateSyntaxError"]
        ELSE IF ~IsDict(ctx) THEN [out |-> <<>>, exc |-> "TypeError"]
        ELSE [out |-> contents, exc |-> "none"]

eSh == <<"s", "h">>
eIni == <<"i", "n", "i">>
eJson == <<"j", "s", "o", "n">>
eYaml == <<"y", "a", "m", "l">>
eYml == <<"y", "m", "l">>
eXml == <<"x", "m", "l">>
eTxt == <<"t", "x", "t">>

(* the loader the chain of tests on ext selects *)
AdapterFor(e) ==
    IF e = eSh THEN "load_shell_config"
    ELSE IF e = eIni THEN "load_ini_config"
    ELSE IF e = eJson THEN "load_json_config"
    ELSE IF e \in {eYaml, eYml} THEN "load_yaml_config"
    ELSE IF e = eXml THEN "load_xml_config"
    ELSE "none"

kLoadedBy == <<"l", "o", "a", "d", "e", "d">>

(* what a loader returns is kept abstract: a dict that names the loader *)
Loaded(adapter) == PyDict(<<Item(kLoadedBy, [tag |-> "loader", name |-> adapter])>>)

(* the tests on ext, on the text cfs *)
Dispatch(cfs, e, called) ==
    IF AdapterFor(e) = "none" THEN [ret |-> PyNone, exc |-> "none", adapters |-> called]
    ELSE [ret |-> Loaded(AdapterFor(e)), exc |-> "none",
          adapters |-> Append(called, AdapterFor(e))]

RECURSIVE load_config_file(_, _, _)
(* load_config_file(config_file_or_string, context=ctx, ext=e) *)
load_config_file(cfs, ctx, e) ==
    LET e1 == IF IsFile(cfs) THEN SplitExt(cfs) ELSE e
    IN  IF IsNone(ctx) THEN Dispatch(cfs, e1, <<>>)
        ELSE
            LET c == IF IsDict(ctx) THEN [ret |-> ctx, exc |-> "none", adapters |-> <<>>]
                     ELSE load_config_file(ctx.s, PyNone, eYaml)
                r == render_jinja_template(cfs, c.ret)
            IN  IF c.exc # "none" THEN c
                ELSE IF r.exc # "none"
                THEN [ret |-> PyNone, exc |-> r.exc, adapters |-> c.adapters]
                ELSE Dispatch(r.out, e1, c.adapters)

LoadInputs == ExistingFiles \cup {sX.s, sStmt.s}
LoadExts == {eSh, eIni, eJson, eYaml, eYml, eXml, eTxt, <<>>}
LoadContexts == {PyNone, EmptyDict, PyStr(pYaml), PyStr(pTxt)}

InitLoad ==
    /\ op = "none"
    /\ dict_o = EmptyDict
    /\ dict_t = EmptyDict
    /\ pre_t = dict_t
    /\ provide_default = FALSE
    /\ keys = PyNone
    /\ keys_regex = <<>>
    /\ ret = PyNone
    /\ exc = "none"
    /\ calls = 0
    /\ config_file_or_string \in LoadInputs
    /\ ext \in LoadExts
    /\ context \in LoadContexts
    /\ adapters = <<>>
    /\ files = [path \in ExistingFiles |-> FileContents(path)]
    /\ NoMain
    /\ NoHeap

(* cfg = load_config_file(config_file_or_string, context=context, ext=ext) *)
CallLoadConfigFile ==
    /\ calls < MaxCalls
    /\ op = "none"
    /\ LET r == load_config_file(config_file_or_string, context, ext)
       IN  /\ ret' = r.ret
           /\ exc' = r.exc
           /\ adapters' = r.adapters
    /\ op' = "load_config_file"
    /\ calls' = calls + 1
    /\ UNCHANGED <<dict_o, dict_t, pre_t, provide_default, keys, keys_regex>>
    /\ UNCHANGED <<config_file_or_string, ext, context, files>>
    /\ UNCHANGED mainVars
    /\ UNCHANGED heap

NextLoad == CallLoadConfigFile

SpecLoad == InitLoad /\ [][NextLoad]_vars

(* Properties of load_config_file *)

LoadedFile == op = "load_config_file"

(* the file's own extension when the input names an existing file,
   otherwise the ext argument *)
EffectiveExt ==
    IF config_file_or_string \in ExistingFiles THEN SplitExt(config_file_or_string)
    ELSE ext

SupportedExts == {eSh, eIni, eJson, eYaml, eYml, eXml}

(* C17: load_config_file returns None, without raising and without calling
   any loader, whenever the effective extension is none of sh, ini, json,
   yaml, yml, xml; for each of the six it calls the matching loader. *)
C17_UnsupportedYieldsNone ==
    LoadedFile =>
        /\ EffectiveExt \notin SupportedExts =>
              (ret = PyNone /\ exc = "none" /\ adapters = <<>>)
        /\ (EffectiveExt \in SupportedExts /\ exc = "none") =>
              /\ Len(adapters) > 0
              /\ adapters[Len(adapters)] = AdapterFor(EffectiveExt)
              /\ ret = Loaded(AdapterFor(EffectiveExt))

(* The same for the calls without a context. *)
DispatchWithoutContext ==
    (LoadedFile /\ IsNone(context)) =>
        /\ exc = "none"
        /\ EffectiveExt \notin SupportedExts => (ret = PyNone /\ adapters = <<>>)
        /\ EffectiveExt \in SupportedExts =>
              (adapters = <<AdapterFor(EffectiveExt)>> /\ ret = Loaded(AdapterFor(EffectiveExt)))

(* a "{% x %}" text with ext txt and an empty context left the call with an
   exception *)
UnsupportedRaised ==
    /\ LoadedFile
    /\ config_file_or_string = sStmt.s /\ ext = eTxt /\ context = EmptyDict
    /\ exc = "TemplateSyntaxError"

(* a file c.txt with the context file c.yaml: the yaml loader was called *)
UnsupportedCalledLoader ==
    /\ LoadedFile
    /\ config_file_or_string = pTxt /\ context = PyStr(pYaml)
    /\ ret = PyNone /\ exc = "none" /\ adapters = <<"load_yaml_config">>

-----------------------------------------------------------------------------
(* The INI adapter: cfg_to_ini_str and load_ini_config *)

NL == "\n"

RECURSIVE JoinWords(_, _)
(* the str() of the elements l[i:], separated by blanks *)
JoinWords(l, i) ==
    IF i > Len(l) THEN <<>>
    ELSE PyStrOf(l[i]) \o (IF i < Len(l) THEN <<" ">> ELSE <<>>) \o JoinWords(l, i + 1)

(* list_to_str(v, True): the text of a scalar; a list is written between
   parentheses, its elements separated by blanks *)
list_to_str(v) ==
    IF IsList(v) THEN <<"(", " ">> \o JoinWords(v.l, 1) \o <<" ", ")">>
    ELSE PyStrOf(v)

RECURSIVE ReplaceChar(_, _, _)
(* s.replace(old, new) for one-character old and new *)
ReplaceChar(s, old, new) ==
    IF Len(s) = 0 THEN <<>>
    ELSE <<IF s[1] = old THEN new ELSE s[1]>> \o ReplaceChar(Tail(s), old, new)

(* str(kname) *)
KnameText(kname) == IF IsNone(kname) THEN sNone ELSE kname.s

(* (ini_str == "") and (ini_str_sub != "") *)
HeaderOmitted(ini_str, ini_str_sub) == ini_str = <<>> /\ ini_str_sub # <<>>

RECURSIVE cfg_to_ini_str(_, _)
RECURSIVE IniListFrom(_, _, _, _)
(* for va in v, from the j-th element on: the text added to ini_str_sub *)
IniListFrom(v, j, k, n_kname) ==
    IF j > Len(v.l) THEN <<>>
    ELSE IF IsDict(v.l[j])
    THEN cfg_to_ini_str(v.l[j], PyStr(n_kname)) \o IniListFrom(v, j + 1, k, n_kname)
    ELSE k \o <<"=">> \o list_to_str(v) \o <<NL>>

RECURSIVE IniFrom(_, _, _, _, _)
(* for k, v in cfg.items(), from the i-th item on, and the return *)
IniFrom(cfg, i, kname, ini_str, ini_str_sub) ==
    IF i > Len(cfg.m)
    THEN LET c == IF ~IsNone(kname) /\ Contains(kname.s, <<".">>) THEN <<>> ELSE <<NL>>
         IN  IF HeaderOmitted(ini_str, ini_str_sub) THEN c \o ini_str_sub
             ELSE c \o <<"[">> \o KnameText(kname) \o <<"]", NL>> \o ini_str \o ini_str_sub
    ELSE
        LET k == cfg.m[i].k
            v == cfg.m[i].v
            n_kname == IF ~IsNone(kname) /\ kname.s # <<>> THEN kname.s \o <<".">> \o k ELSE k
        IN  IF IsDict(v)
            THEN IniFrom(cfg, i + 1, kname, ini_str,
                         ini_str_sub \o cfg_to_ini_str(v, PyStr(n_kname)))
            ELSE IF IsList(v)
            THEN IniFrom(cfg, i + 1, kname, ini_str,
                         ini_str_sub \o IniListFrom(v, 1, k, n_kname))
            ELSE LET v1 == ReplaceChar(ReplaceChar(list_to_str(v), "'", "\""), NL, " ")
                 IN  IniFrom(cfg, i + 1, kname,
                             ini_str \o k \o <<"=", "'">> \o v1 \o <<"'", NL>>, ini_str_sub)

cfg_to_ini_str(cfg, kname) == IniFrom(cfg, 1, kname, <<>>, <<>>)

RECURSIVE SplitOn(_, _)
(* s.split(sep) for a one-character sep *)
SplitOn(s, sep) ==
    LET hits == {i \in 1..Len(s) : s[i] = sep}
    IN  IF hits = {} THEN <<s>>
        ELSE LET i == CHOOSE h \in hits : \A g \in hits : h <= g
             IN  <<SubSeq(s, 1, i - 1)>> \o SplitOn(SubSeq(s, i + 1, Len(s)), sep)

(* the words of s: the non-empty parts between blanks *)
Words(s) == SelectSeq(SplitOn(s, " "), LAMBDA w : w # <<>>)

(* s without the quote characters at its two ends *)
RECURSIVE StripQuotes(_)
StripQuotes(s) ==
    IF Len(s) > 0 /\ s[1] \in {"'", "\""} THEN StripQuotes(Tail(s))
    ELSE IF Len(s) > 0 /\ s[Len(s)] \in {"'", "\""}
    THEN StripQuotes(SubSeq(s, 1, Len(s) - 1))
    ELSE s

(* str_to_list: a text between parentheses becomes the list of its coerced
   words, any other text is coerced without the quotes around it *)
str_to_list(v) ==
    LET t == Strip(v)
    IN  IF Len(t) >= 2 /\ t[1] = "(" /\ t[Len(t)] = ")"
        THEN LET ws == Words(SubSeq(t, 2, Len(t) - 1))
             IN  PyList([i \in 1..Len(ws) |-> str_to_type(StripQuotes(ws[i]))])
        ELSE str_to_type(StripQuotes(t))

(* configparser: the first "=" or ":" of an option line, 0 if there is none *)
DelimiterPos(line) ==
    LET hits == {i \in 1..Len(line) : line[i] \in {"=", ":"}}
    IN  IF hits = {} THEN 0 ELSE CHOOSE h \in hits : \A g \in hits : h <= g

(* configparser: a line "[header]" *)
IsSectionLine(line) ==
    /\ Len(line) >= 3
    /\ line[1] = "["
    /\ \E i \in 3..Len(line) : line[i] = "]"

SectionName(line) ==
    LET ends == {i \in 3..Len(line) : line[i] = "]"}
    IN  SubSeq(line, 2, MaxOf(ends) - 1)

RECURSIVE ReadLines(_, _, _, _)
(* RawConfigParser.read_string with optionxform = str, over the lines from
   the i-th on: sections is the dict of the sections read so far, cursect the
   name of the current one (None before the first header).  The lines of the
   model start in the first column, so none continues a value. *)
ReadLines(lines, i, sections, cursect) ==
    IF i > Len(lines) THEN [cfg |-> sections, exc |-> "none"]
    ELSE
        LET line == Strip(lines[i])
        IN  IF line = <<>> \/ line[1] \in {"#", ";"}
            THEN ReadLines(lines, i + 1, sections, cursect)
            ELSE IF IsSectionLine(line)
            THEN IF HasKey(sections, SectionName(line))
                 THEN [cfg |-> sections, exc |-> "DuplicateSectionError"]
                 ELSE ReadLines(lines, i + 1,
                                SetItem(sections, SectionName(line), EmptyDict),
                                PyStr(SectionName(line)))
            ELSE IF IsNone(cursect)
            THEN [cfg |-> sections, exc |-> "MissingSectionHeaderError"]
            ELSE IF DelimiterPos(line) = 0 \/ Strip(SubSeq(line, 1, DelimiterPos(line) - 1)) = <<>>
            THEN [cfg |-> sections, exc |-> "ParsingError"]
            ELSE
                LET d == DelimiterPos(line)
                    optname == Strip(SubSeq(line, 1, d - 1))
                    optval == Strip(SubSeq(line, d + 1, Len(line)))
                    sect == GetItem(sections, cursect.s)
                IN  IF HasKey(sect, optname)
                    THEN [cfg |-> sections, exc |-> "DuplicateOptionError"]
                    ELSE ReadLines(lines, i + 1,
                                   SetItem(sections, cursect.s,
                                           SetItem(sect, optname, PyStr(optval))),
                                   cursect)

(* vs[k] = str_to_list(v, return_string) for the options of one section *)
CoerceOptions(vs) ==
    PyDict([i \in 1..Len(vs.m) |-> Item(vs.m[i].k, str_to_list(vs.m[i].v.s))])

(* load_ini_config on a string of contents *)
load_ini_config(text) ==
    LET r == ReadLines(SplitOn(text, NL), 1, EmptyDict, PyNone)
    IN  IF r.exc # "none" THEN [ret |-> PyNone, exc |-> r.exc]
        ELSE [ret |-> PyDict([i \in 1..Len(r.cfg.m) |->
                                 Item(r.cfg.m[i].k, CoerceOptions(r.cfg.m[i].v))]),
              exc |-> "none"]

kS == <<"s">>
kT == <<"t">>
kK == <<"k">>
kDb == <<"d", "b">>
kHost == <<"h", "o", "s", "t">>
kDbHost == <<"d", "b", ".", "h", "o", "s", "t">>
sLocalhost == PyStr(<<"l", "o", "c", "a", "l", "h", "o", "s", "t">>)

(* {"db.host": "localhost"} and {"db": {"host": "localhost"}} *)
FlatKeyDoc == PyDict(<<Item(kDbHost, sLocalhost)>>)
NestedKeyDoc == PyDict(<<Item(kDb, PyDict(<<Item(kHost, sLocalhost)>>))>>)

(* the values of a section: an integer, a str, a list *)
IniValues == {PyInt(1), sX, PyList(<<PyInt(1), PyInt(2)>>)}
IniSections == DictsOver(kA, kK, IniValues)

(* two-level documents over the sections s and t, and the two above *)
IniDocs ==
    DictsOver(kS, kT, IniSections) \cup {FlatKeyDoc, NestedKeyDoc}

InitIni ==
    /\ op = "none"
    /\ dict_o \in IniDocs
    /\ dict_t = EmptyDict
    /\ pre_t = dict_t
    /\ provide_default = FALSE
    /\ keys = PyNone
    /\ keys_regex = <<>>
    /\ ret = PyNone
    /\ exc = "none"
    /\ calls = 0
    /\ NoLoader
    /\ NoMain
    /\ NoHeap

(* config_file_or_string = cfg_to_ini_str(cfg) *)
CallCfgToIniStr ==
    /\ calls < MaxCalls
    /\ op = "none"
    /\ config_file_or_string' = cfg_to_ini_str(dict_o, PyNone)
    /\ op' = "cfg_to_ini_str"
    /\ calls' = calls + 1
    /\ UNCHANGED <<dict_o, dict_t, pre_t, provide_default, keys, keys_regex, ret, exc>>
    /\ UNCHANGED <<ext, context, adapters, files>>
    /\ UNCHANGED mainVars
    /\ UNCHANGED heap

(* cfg = load_ini_config(config_file_or_string) on the text written before *)
CallLoadIniConfig ==
    /\ calls < MaxCalls
    /\ op = "cfg_to_ini_str"
    /\ LET r == load_ini_config(config_file_or_string)
       IN  /\ ret' = r.ret
           /\ exc' = r.exc
    /\ op' = "load_ini_config"
    /\ adapters' = Append(adapters, "load_ini_config")
    /\ calls' = calls + 1
    /\ UNCHANGED <<dict_o, dict_t, pre_t, provide_default, keys, keys_regex>>
    /\ UNCHANGED <<config_file_or_string, ext, context, files>>
    /\ UNCHANGED mainVars
    /\ UNCHANGED heap

NextIni == CallCfgToIniStr \/ CallLoadIniConfig

SpecIni == InitIni /\ [][NextIni]_vars

(* Properties of the INI adapter *)

Written == op = "cfg_to_ini_str"
Reloaded == op = "load_ini_config"

(* "[db]" and "host='localhost'" on two lines *)
DbSectionText ==
    <<"[", "d", "b", "]", NL>> \o kHost \o <<"=", "'">> \o sLocalhost.s \o <<"'", NL>>

(* C18: cfg_to_ini_str writes the flat key "db.host" with the value
   "localhost" as the header [db] followed by the line host='localhost', and
   load_ini_config reads that text as {"db": {"host": "localhost"}}. *)
C18_FlatKeyBecomesSection ==
    dict_o = FlatKeyDoc =>
        /\ Written => Contains(config_file_or_string, DbSectionText)
        /\ Reloaded => (exc = "none" /\ PyEq(ret, NestedKeyDoc))

(* The nested document is written and read back that way. *)
NestedKeyRoundTrip ==
    dict_o = NestedKeyDoc =>
        /\ Written => Contains(config_file_or_string, DbSectionText)
        /\ Reloaded => (exc = "none" /\ PyEq(ret, NestedKeyDoc))

(* the flat key was written under the header [None] and read back so *)
FlatKeyUnderNone ==
    /\ Reloaded /\ dict_o = FlatKeyDoc
    /\ config_file_or_string =
           <<NL, "[", "N", "o", "n", "e", "]", NL>> \o kDbHost \o <<"=", "'">>
               \o sLocalhost.s \o <<"'", NL>>
    /\ exc = "none"
    /\ ret = PyDict(<<Item(sNone, PyDict(<<Item(kDbHost, sLocalhost)>>))>>)

(* a two-level document: sections of scalars and lists *)
TwoLevel(d) ==
    \A i \in 1..Len(d.m) :
        /\ IsDict(d.m[i].v)
        /\ \A j \in 1..Len(d.m[i].v.m) : ~IsDict(d.m[i].v.m[j].v)

(* C19: for every two-level document v that load_ini_config can produce,
   also with a section of lists only or a section without keys,
   load_ini_config(cfg_to_ini_str(v)) equals v. *)
C19_IniRoundTrip ==
    (Reloaded /\ TwoLevel(dict_o)) => (exc = "none" /\ PyEq(ret, dict_o))

(* some section holds keys, all of them with list values *)
HasListOnlySection(d) ==
    \E i \in 1..Len(d.m) :
        /\ IsDict(d.m[i].v)
        /\ Len(d.m[i].v.m) > 0
        /\ \A j \in 1..Len(d.m[i].v.m) : IsList(d.m[i].v.m[j].v)

(* The same for the documents that hold a section and no section made of
   lists only. *)
IniRoundTripWithScalars ==
    (Reloaded /\ TwoLevel(dict_o) /\ Len(dict_o.m) > 0 /\ ~HasListOnlySection(dict_o)) =>
        (exc = "none" /\ PyEq(ret, dict_o))

(* the section s: {k: [1, 2]} was written without its header *)
ListSectionWithoutHeader ==
    /\ Reloaded
    /\ dict_o = PyDict(<<Item(kS, PyDict(<<Item(kK, PyList(<<PyInt(1), PyInt(2)>>))>>))>>)
    /\ config_file_or_string = <<NL, NL, "k", "=", "(", " ", "1", " ", "2", " ", ")", NL>>
    /\ exc = "MissingSectionHeaderError"

-----------------------------------------------------------------------------
(* The XML adapter: xml_to_dict, dict_to_xml, load_xml_config, cfg_to_xml_str *)

(* an ET.Element: tag, attrib (a dict of str), text (None or a str) and the
   child elements in order *)
Element(tag, attrib, text, children) ==
    [tag |-> tag, attrib |-> attrib, text |-> text, children |-> children]

kAttrib == <<"a", "t", "t", "r", "i", "b">>
kValuea == <<"v", "a", "l", "u", "e", "a">>

(* str_to_list(child.text, return_string): a missing text stays None *)
TextValue(text) == IF IsNone(text) THEN PyNone ELSE str_to_list(text.s)

(* cfg after one child with the value `value` has been entered under k *)
EnterChild(cfg, k, attrib, value) ==
    LET listed == IF HasKey(cfg, k) /\ ~IsList(GetItem(cfg, k))
                  THEN SetItem(cfg, k, PyList(<<GetItem(cfg, k)>>))
                  ELSE cfg
        cfg_l == LET a == PyDict(<<Item(kAttrib, attrib)>>)
                 IN  IF IsDict(value) THEN DictUpdate(a, value.m, 1)
                     ELSE IF ~IsNone(value) THEN SetItem(a, kValuea, value)
                     ELSE a
        entry == IF Len(attrib.m) = 0 THEN value ELSE cfg_l
    IN  IF HasKey(listed, k)
        THEN SetItem(listed, k, PyList(Append(GetItem(listed, k).l, entry)))
        ELSE IF Len(attrib.m) = 0 /\ IsNone(value) THEN listed
        ELSE SetItem(listed, k, entry)

RECURSIVE xml_to_dict(_)
RECURSIVE XmlChildrenFrom(_, _, _)
(* for child in root, from the i-th child on *)
XmlChildrenFrom(root, i, cfg) ==
    IF i > Len(root.children) THEN cfg
    ELSE
        LET child == root.children[i]
            value == IF Len(child.children) > 0 THEN xml_to_dict(child)
                     ELSE TextValue(child.text)
        IN  Strict(LAMBDA entered : XmlChildrenFrom(root, i + 1, entered),
                   Strict(LAMBDA v : EnterChild(cfg, child.tag, child.attrib, v), value))

xml_to_dict(root) == XmlChildrenFrom(root, 1, EmptyDict)

RECURSIVE dict_to_xml(_, _)
RECURSIVE XmlListFrom(_, _, _, _)
(* for va in v, from the j-th element on: elem with one child k per element *)
XmlListFrom(v, j, k, elem) ==
    IF j > Len(v.l) THEN elem
    ELSE
        LET va == v.l[j]
            child == IF IsDict(va) THEN dict_to_xml(va, Element(k, EmptyDict, PyNone, <<>>))
                     ELSE Element(k, EmptyDict, PyStr(list_to_str(va)), <<>>)
        IN  XmlListFrom(v, j + 1, k, [elem EXCEPT !.children = Append(@, child)])

RECURSIVE XmlItemsFrom(_, _, _)
(* for k, v in d.items(), from the i-th item on *)
XmlItemsFrom(d, i, elem) ==
    IF i > Len(d.m) THEN elem
    ELSE
        LET k == d.m[i].k
            v == d.m[i].v
        IN  IF k = kValuea
            THEN IF IsDict(v) THEN XmlItemsFrom(d, i + 1, dict_to_xml(v, elem))
                 ELSE XmlItemsFrom(d, i + 1, [elem EXCEPT !.text = PyStr(list_to_str(v))])
            ELSE IF IsDict(v)
            THEN IF k = kAttrib
                 THEN XmlItemsFrom(d, i + 1, [elem EXCEPT !.attrib = DictUpdate(@, v.m, 1)])
                 ELSE XmlItemsFrom(d, i + 1,
                          [elem EXCEPT !.children =
                              Append(@, dict_to_xml(v, Element(k, EmptyDict, PyNone, <<>>)))])
            ELSE IF IsList(v)
            THEN XmlItemsFrom(d, i + 1, XmlListFrom(v, 1, k, elem))
            ELSE XmlItemsFrom(d, i + 1,
                     [elem EXCEPT !.children =
                         Append(@, Element(k, EmptyDict, PyStr(list_to_str(v)), <<>>))])

dict_to_xml(d, elem) == XmlItemsFrom(d, 1, elem)

(* the text of the XML declaration that toprettyxml writes *)
XmlDeclaration ==
    <<"<", "?", "x", "m", "l", " ", "v", "e", "r", "s", "i", "o", "n", "=", "\"",
      "1", ".", "0", "\"", " ", "?", ">">>

sQuot == <<"&", "q", "u", "o", "t", ";">>
sAmp == <<"&", "a", "m", "p", ";">>
sLt == <<"&", "l", "t", ";">>
sGt == <<"&", "g", "t", ";">>

RECURSIVE EscapeData(_, _)
(* the character data s as the writers emit it; quotes are escaped in
   attribute values only *)
EscapeData(s, inAttr) ==
    IF Len(s) = 0 THEN <<>>
    ELSE (IF s[1] = "&" THEN sAmp
          ELSE IF s[1] = "<" THEN sLt
          ELSE IF s[1] = ">" THEN sGt
          ELSE IF s[1] = "\"" /\ inAttr THEN sQuot
          ELSE <<s[1]>>) \o EscapeData(Tail(s), inAttr)

RECURSIVE AttribText(_, _)
(* the attributes m[i:] as ` name="value"` *)
AttribText(m, i) ==
    IF i > Len(m) THEN <<>>
    ELSE <<" ">> \o m[i].k \o <<"=", "\"">> \o EscapeData(m[i].v.s, TRUE) \o <<"\"">>
             \o AttribText(m, i + 1)

(* a plausible slip: the text of an element is not written *)
MutHasText(e) == FALSE

(* the element has character data *)
HasText(e) == ~IsNone(e.text) /\ e.text.s # <<>>

RECURSIVE PrettyElement(_, _)
RECURSIVE PrettyChildren(_, _, _)
PrettyChildren(e, i, indent) ==
    IF i > Len(e.children) THEN <<>>
    ELSE PrettyElement(e.children[i], indent) \o PrettyChildren(e, i + 1, indent)

(* ET.tostring, minidom.parseString and toprettyxml(indent="  ") of one
   element: an element without content is written "<tag/>", one that holds
   character data only on one line, any other with each node on a line of
   its own *)
PrettyElement(e, indent) ==
    LET head == indent \o <<"<">> \o e.tag \o AttribText(e.attrib.m, 1)
        tail == <<"<", "/">> \o e.tag \o <<">", NL>>
    IN  IF ~HasText(e) /\ Len(e.children) = 0 THEN head \o <<"/", ">", NL>>
        ELSE IF Len(e.children) = 0
        THEN head \o <<">">> \o EscapeData(e.text.s, FALSE) \o tail
        ELSE head \o <<">", NL>>
                 \o (IF HasText(e)
                     THEN indent \o <<" ", " ">> \o EscapeData(e.text.s, FALSE) \o <<NL>>
                     ELSE <<>>)
                 \o PrettyChildren(e, 1, indent \o <<" ", " ">>)
                 \o indent \o tail

kRoot == <<"r", "o", "o", "t">>

(* cfg_to_xml_str, with the final r.replace("&quot;", '"') *)
cfg_to_xml_str(cfg) ==
    Strict(LAMBDA root :
               Strict(LAMBDA r : Replace(r, 1, sQuot, <<"\"">>),
                      XmlDeclaration \o <<NL>> \o PrettyElement(root, <<>>)),
           dict_to_xml(cfg, Element(kRoot, EmptyDict, PyNone, <<>>)))

XmlSpace == {" ", NL}
XmlDelimiters == XmlSpace \cup {"=", ">", "/", "<", "\"", "?", "&"}

(* the first position at or after i whose character is in (or, with
   inside = FALSE, not in) the set cs; Len(s) + 1 if there is none *)
FirstWhere(s, i, cs, inside) ==
    LET hits == {j \in i..Len(s) : (s[j] \in cs) = inside}
    IN  IF hits = {} THEN Len(s) + 1 ELSE CHOOSE h \in hits : \A g \in hits : h <= g

SkipSpace(s, i) == FirstWhere(s, i, XmlSpace, FALSE)
NameEnd(s, i) == FirstWhere(s, i, XmlDelimiters, TRUE)

(* every "&" of the character data s starts one of the four entities, and
   s holds no "<" *)
WellFormedData(s) ==
    /\ \A i \in 1..Len(s) : s[i] # "<"
    /\ \A i \in 1..Len(s) :
          s[i] = "&" => \E ent \in {sQuot, sAmp, sLt, sGt} : OccursAt(ent, s, i)

(* the character data s with its entities decoded *)
Unescape(s) ==
    Replace(Replace(Replace(Replace(s, 1, sQuot, <<"\"">>), 1, sLt, <<"<">>),
                    1, sGt, <<">">>), 1, sAmp, <<"&">>)

ParseFailed == [ok |-> FALSE]

RECURSIVE ParseAttribs(_, _, _)
(* the attributes of a start tag from position i on: the dict of them and
   the position of the ">" or "/" that ends the tag *)
ParseAttribs(s, i, attrib) ==
    LET j == SkipSpace(s, i)
    IN  IF j > Len(s) THEN ParseFailed
        ELSE IF s[j] \in {">", "/"} THEN [ok |-> TRUE, attrib |-> attrib, next |-> j]
        ELSE IF j = i THEN ParseFailed
        ELSE
            LET e == NameEnd(s, j)
                q == NextPos(<<"\"">>, s, e + 2)
            IN  IF e = j \/ e + 1 > Len(s) \/ s[e] # "=" \/ s[e + 1] # "\"" \/ q > Len(s)
                THEN ParseFailed
                ELSE IF ~WellFormedData(SubSeq(s, e + 2, q - 1))
                        \/ HasKey(attrib, SubSeq(s, j, e - 1))
                THEN ParseFailed
                ELSE Strict(LAMBDA entered : ParseAttribs(s, q + 1, entered),
                            SetItem(attrib, SubSeq(s, j, e - 1),
                                    PyStr(Unescape(SubSeq(s, e + 2, q - 1)))))

RECURSIVE ParseElement(_, _)
RECURSIVE ParseContent(_, _, _, _)
(* the content of an element from position i on, up to its end tag: elem
   collects the text in front of the first child and the children *)
ParseContent(s, i, elem, first) ==
    LET j == NextPos(<<"<">>, s, i)
        data == SubSeq(s, i, j - 1)
        withText == IF first /\ data # <<>>
                    THEN [elem EXCEPT !.text = PyStr(Unescape(data))]
                    ELSE elem
    IN  IF j + 1 > Len(s) \/ ~WellFormedData(data) THEN ParseFailed
        ELSE IF s[j + 1] = "/" THEN [ok |-> TRUE, elem |-> withText, next |-> j]
        ELSE Strict(LAMBDA c :
                        IF ~c.ok THEN ParseFailed
                        ELSE Strict(LAMBDA filled : ParseContent(s, c.next, filled, FALSE),
                                    [withText EXCEPT !.children = Append(@, c.elem)]),
                    ParseElement(s, j))

(* the element whose start tag opens at position i, and the position behind
   its end *)
ParseElement(s, i) ==
    LET e == NameEnd(s, i + 1)
    IN  IF i > Len(s) \/ s[i] # "<" \/ e = i + 1 THEN ParseFailed
        ELSE
            Strict(LAMBDA a :
                IF ~a.ok THEN ParseFailed
                ELSE IF s[a.next] = "/"
                THEN IF a.next + 1 <= Len(s) /\ s[a.next + 1] = ">"
                     THEN [ok |-> TRUE,
                           elem |-> Element(SubSeq(s, i + 1, e - 1), a.attrib, PyNone, <<>>),
                           next |-> a.next + 2]
                     ELSE ParseFailed
                ELSE
                    Strict(LAMBDA c :
                        IF ~c.ok THEN ParseFailed
                        ELSE
                            LET n == NameEnd(s, c.next + 2)
                                g == SkipSpace(s, n)
                            IN  IF SubSeq(s, c.next + 2, n - 1) = c.elem.tag
                                   /\ g <= Len(s) /\ s[g] = ">"
                                THEN [ok |-> TRUE, elem |-> c.elem, next |-> g + 1]
                                ELSE ParseFailed,
                        ParseContent(s, a.next + 1,
                            Element(SubSeq(s, i + 1, e - 1), a.attrib, PyNone, <<>>), TRUE)),
                ParseAttribs(s, e, EmptyDict))

(* ET.fromstring: the root element of the document; an XML declaration may
   come first, only white space may follow the root *)
fromstring(s) ==
    LET i == SkipSpace(s, 1)
        body == IF OccursAt(<<"<", "?">>, s, i)
                THEN SkipSpace(s, NextPos(<<"?", ">">>, s, i) + 2)
                ELSE i
    IN  Strict(LAMBDA r :
                   IF ~r.ok THEN ParseFailed
                   ELSE IF SkipSpace(s, r.next) <= Len(s) THEN ParseFailed
                   ELSE r,
               ParseElement(s, body))

(* load_xml_config on a string of contents *)
load_xml_config(text) ==
    Strict(LAMBDA r :
               IF ~r.ok THEN [ret |-> PyNone, exc |-> "ParseError"]
               ELSE [ret |-> xml_to_dict(r.elem), exc |-> "none"],
           fromstring(text))

sHello == <<"h", "e", "l", "l", "o">>

(* <x a="1">hello</x>, <x>hello</x>, <y>1</y>, <x a="1"><y>1</y></x>, <x/>,
   <y b="2"/> and <y b="&quot;"/> *)
xAttrText ==
    <<"<", "x", " ", "a", "=", "\"", "1", "\"", ">">> \o sHello \o <<"<", "/", "x", ">">>
xText == <<"<", "x", ">">> \o sHello \o <<"<", "/", "x", ">">>
xNumber == <<"<", "y", ">", "1", "<", "/", "y", ">">>
xNested ==
    <<"<", "x", " ", "a", "=", "\"", "1", "\"", ">">> \o xNumber \o <<"<", "/", "x", ">">>
xEmpty == <<"<", "x", "/", ">">>
xAttrOnly == <<"<", "y", " ", "b", "=", "\"", "2", "\"", "/", ">">>
xQuote == <<"<", "y", " ", "b", "=", "\"">> \o sQuot \o <<"\"", "/", ">">>

(* <x>(1 2)</x>, <x>hello<y>1</y></x> and <x a="1">hello<y>1</y></x> *)
xList == <<"<", "x", ">", "(", "1", " ", "2", ")", "<", "/", "x", ">">>
xMixed == <<"<", "x", ">">> \o sHello \o xNumber \o <<"<", "/", "x", ">">>
xAttrMixed ==
    <<"<", "x", " ", "a", "=", "\"", "1", "\"", ">">> \o sHello \o xNumber
        \o <<"<", "/", "x", ">">>

XmlChildren ==
    {xAttrText, xText, xNumber, xNested, xEmpty, xAttrOnly, xQuote, xList, xMixed,
     xAttrMixed}

(* the document <root>...</root> around the text inner *)
InRoot(inner) ==
    <<"<">> \o kRoot \o <<">">> \o inner \o <<"<", "/">> \o kRoot \o <<">">>

(* documents with up to two children under the root, and the document that
   is the element <x a="1">hello</x> alone *)
XmlTexts ==
    {InRoot(<<>>), xAttrText}
        \cup {InRoot(c) : c \in XmlChildren}
        \cup {InRoot(c \o d) : c \in XmlChildren, d \in XmlChildren}

InitXml ==
    /\ op = "none"
    /\ dict_o = EmptyDict
    /\ dict_t = EmptyDict
    /\ pre_t = dict_t
    /\ provide_default = FALSE
    /\ keys = PyNone
    /\ keys_regex = <<>>
    /\ ret = PyNone
    /\ exc = "none"
    /\ calls = 0
    /\ config_file_or_string \in XmlTexts
    /\ ext = eXml
    /\ context = PyNone
    /\ adapters = <<>>
    /\ files = <<>>
    /\ NoMain
    /\ NoHeap

(* cfg = load_xml_config(config_file_or_string) *)
CallLoadXmlConfig ==
    /\ calls < MaxXmlCalls
    /\ op \in {"none", "cfg_to_xml_str"}
    /\ LET r == load_xml_config(config_file_or_string)
       IN  /\ ret' = r.ret
           /\ exc' = r.exc
    /\ op' = "load_xml_config"
    /\ adapters' = Append(adapters, "load_xml_config")
    /\ calls' = calls + 1
    /\ UNCHANGED <<dict_o, dict_t, pre_t, provide_default, keys, keys_regex>>
    /\ UNCHANGED <<config_file_or_string, ext, context, files>>
    /\ UNCHANGED mainVars
    /\ UNCHANGED heap

(* config_file_or_string = cfg_to_xml_str(cfg), for the cfg loaded before *)
CallCfgToXmlStr ==
    /\ calls < MaxXmlCalls
    /\ op = "load_xml_config"
    /\ exc = "none"
    /\ dict_o' = ret
    /\ config_file_or_string' = cfg_to_xml_str(ret)
    /\ op' = "cfg_to_xml_str"
    /\ calls' = calls + 1
    /\ UNCHANGED <<dict_t, pre_t, provide_default, keys, keys_regex, ret, exc>>
    /\ UNCHANGED <<ext, context, adapters, files>>
    /\ UNCHANGED mainVars
    /\ UNCHANGED heap

NextXml == CallLoadXmlConfig \/ CallCfgToXmlStr

SpecXml == InitXml /\ [][NextXml]_vars

(* Properties of the XML adapter *)

XmlLoaded == op = "load_xml_config"

(* {"x": {"attrib": {"a": "1"}, "valuea": "hello"}} *)
AttrTextDoc ==
    PyDict(<<Item(kX, PyDict(<<Item(kAttrib, PyDict(<<Item(kA, PyStr(<<"1">>))>>)),
                              Item(kValuea, PyStr(sHello))>>))>>)

(* C20, as stated: load_xml_config on the element <x a="1">hello</x> gives
   {"x": {"attrib": {"a": "1"}, "valuea": "hello"}}, and cfg_to_xml_str of
   that dict, loaded again, gives the same dict. *)
C20_ElementAsDocument ==
    /\ (XmlLoaded /\ calls = 1 /\ config_file_or_string = xAttrText) =>
           (exc = "none" /\ ret = AttrTextDoc)
    /\ (XmlLoaded /\ calls = 3 /\ dict_o = AttrTextDoc) =>
           (exc = "none" /\ PyEq(ret, dict_o))

(* C20, for the element as a child of the document's root element:
   load_xml_config on <root><x a="1">hello</x></root> gives
   {"x": {"attrib": {"a": "1"}, "valuea": "hello"}}; cfg_to_xml_str of that
   dict holds the element <x a="1">hello</x> and, loaded again, gives the
   same dict. *)
C20_ElementUnderRoot ==
    /\ (XmlLoaded /\ calls = 1 /\ config_file_or_string = InRoot(xAttrText)) =>
           (exc = "none" /\ ret = AttrTextDoc)
    /\ (op = "cfg_to_xml_str" /\ dict_o = AttrTextDoc) =>
           Contains(config_file_or_string, xAttrText)
    /\ (XmlLoaded /\ calls = 3 /\ dict_o = AttrTextDoc) =>
           (exc = "none" /\ PyEq(ret, dict_o))

(* the dict was loaded, written as a root element around the element on a
   line of its own, and loaded again *)
C20_Witness ==
    /\ XmlLoaded /\ calls = 3 /\ exc = "none"
    /\ dict_o = AttrTextDoc
    /\ config_file_or_string =
           XmlDeclaration \o <<NL, "<">> \o kRoot \o <<">", NL, " ", " ">> \o xAttrText
               \o <<NL, "<", "/">> \o kRoot \o <<">", NL>>
    /\ ret = AttrTextDoc

(* the element alone is the root of its document and has no children *)
ElementAloneGivesEmpty ==
    /\ XmlLoaded /\ calls = 1
    /\ config_file_or_string = xAttrText
    /\ exc = "none" /\ ret = EmptyDict

-----------------------------------------------------------------------------
(* Properties of extend_yaml *)

Expanded == op = "extend_yaml"

(* the paths of the dicts of a document of the shape above *)
DictPaths(doc) ==
    {<<>>} \cup {<<k>> : k \in {x \in KeysOf(doc) : IsDict(GetItem(doc, x))}}

(* a value no pass changes: a number, or a str free of template syntax *)
PlainValue(x) == x.tag = "int" \/ (IsStr(x) /\ ~IsATemplate(x.s))

(* the value a name stands for in the scope of the dict local: its own keys,
   then those of the root *)
InScope(name, local, root) == HasKey(local, name) \/ HasKey(root, name)
ScopeValue(name, local, root) ==
    IF HasKey(local, name) THEN GetItem(local, name) ELSE GetItem(root, name)

(* s is made of "{{ name }}" units, each naming a variable that is defined
   in the scope with a plain value *)
FullyResolvable(s, local, root) ==
    LET ts == FindTemplates(s, 1)
    IN  /\ ~Contains(s, OpenStmt)
        /\ Len(ts) > 0
        /\ \A i \in 1..Len(ts) :
              /\ IsIdentifier(ExprOf(ts[i]))
              /\ ~Contains(ts[i], sString)
              /\ InScope(ExprOf(ts[i]), local, root)
              /\ PlainValue(ScopeValue(ExprOf(ts[i]), local, root))

(* s with every unit replaced by str() of the value its name stands for *)
Resolved(s, local, root) ==
    LET ts == FindTemplates(s, 1)
    IN  Substitute(s, ts,
                   [i \in 1..Len(ts) |-> PyStrOf(ScopeValue(ExprOf(ts[i]), local, root))], 1)

(* every fully resolvable str of the dict at path has been replaced by the
   coerced text of its resolution *)
ResolvedAt(path) ==
    LET before == GetPath(pre_t, path)
        after == GetPath(dict_t, path)
    IN  \A k \in KeysOf(before) :
            LET v == GetItem(before, k)
            IN  (IsStr(v) /\ FullyResolvable(v.s, before, pre_t)) =>
                    GetItem(after, k) = str_to_type(Resolved(v.s, before, pre_t))

(* C10: when extend_yaml returns, in every dict of the document, the root
   included, a str made of "{{ }}" units whose variables are all defined in
   the scope holds the substituted, type-coerced result; "{{ a }}" next to
   a: 1 has become the integer 1. *)
C10_FullResolution ==
    (Expanded /\ Returned) => \A path \in DictPaths(pre_t) : ResolvedAt(path)

(* The same for the dicts that share no key with the root (and hold no key
   "parent"), which are the ones render accepts. *)
FullResolutionWhereKeysDisjoint ==
    (Expanded /\ Returned) =>
        \A path \in DictPaths(pre_t) :
            ~KwargsCollide(GetPath(pre_t, path), pre_t) => ResolvedAt(path)

(* a section whose "{{ a }}" was resolved to the root's a: 1 *)
ResolvedInSection ==
    /\ Expanded /\ Returned
    /\ HasKey(pre_t, kA) /\ GetItem(pre_t, kA) = PyInt(1)
    /\ HasKey(pre_t, kX)
    /\ GetItem(pre_t, kX) = PyDict(<<Item(kC, sExprASpaced)>>)
    /\ GetItem(dict_t, kX) = PyDict(<<Item(kC, PyInt(1))>>)

-----------------------------------------------------------------------------
(* Partial resolution *)

(* no value stands for name in the scope of the dict local *)
Undefined(name, local, root) == ~InScope(name, local, root) /\ name # kParent

(* s is made of "{{ name }}" units; at least one names an undefined
   variable, the others name variables defined with a plain value *)
PartlyResolvable(s, local, root) ==
    LET ts == FindTemplates(s, 1)
    IN  /\ ~Contains(s, OpenStmt)
        /\ Len(ts) > 0
        /\ \A i \in 1..Len(ts) :
              /\ IsIdentifier(ExprOf(ts[i]))
              /\ \/ Undefined(ExprOf(ts[i]), local, root)
                 \/ /\ InScope(ExprOf(ts[i]), local, root)
                    /\ PlainValue(ScopeValue(ExprOf(ts[i]), local, root))
        /\ \E i \in 1..Len(ts) : Undefined(ExprOf(ts[i]), local, root)

(* s with the defined units replaced by str() of their value and the
   undefined ones left as they are *)
PartlyResolved(s, local, root) ==
    LET ts == FindTemplates(s, 1)
    IN  Substitute(s, ts,
                   [i \in 1..Len(ts) |->
                       IF Undefined(ExprOf(ts[i]), local, root) THEN ts[i]
                       ELSE PyStrOf(ScopeValue(ExprOf(ts[i]), local, root))], 1)

PartlyResolvedAt(path) ==
    LET before == GetPath(pre_t, path)
        after == GetPath(dict_t, path)
    IN  \A k \in KeysOf(before) :
            LET v == GetItem(before, k)
            IN  (IsStr(v) /\ PartlyResolvable(v.s, before, pre_t)) =>
                    GetItem(after, k) = PyStr(PartlyResolved(v.s, before, pre_t))

(* C11: when at least one "{{ }}" unit of a str cannot be resolved,
   extend_yaml substitutes the resolvable units, leaves the unresolved ones
   in place and stores the reassembled text as a str; "{{ a }}-{{ b }}" with
   a = 1 and b undefined becomes "1-{{ b }}". *)
C11_PartialResolution ==
    (Expanded /\ Returned) => \A path \in DictPaths(pre_t) : PartlyResolvedAt(path)

(* The same for the dicts whose keyword arguments render accepts. *)
PartialResolutionWhereKeysDisjoint ==
    (Expanded /\ Returned) =>
        \A path \in DictPaths(pre_t) :
            ~KwargsCollide(GetPath(pre_t, path), pre_t) => PartlyResolvedAt(path)

(* a section whose "{{a}}-{{b}}" became "1-{{b}}" *)
PartlyResolvedInSection ==
    /\ Expanded /\ Returned
    /\ pre_t = PyDict(<<Item(kA, PyInt(1)), Item(kX, PyDict(<<Item(kC, sExprAB)>>))>>)
    /\ GetItem(dict_t, kX) =
           PyDict(<<Item(kC, PyStr(<<"1", "-", "{", "{", "b", "}", "}">>))>>)

(* the root dict a: 1, b: "{{a}}-{{n}}" after a call that returned *)
PartlyResolvableAtRoot ==
    /\ Expanded /\ Returned
    /\ pre_t = PyDict(<<Item(kA, PyInt(1)), Item(kB, sExprAN)>>)

-----------------------------------------------------------------------------
(* Idempotence *)

(* C12: running extend_yaml again on a document a run of extend_yaml has
   returned changes no value (and returns), also when a str refers to a key
   whose own value is a template that comes later in key order. *)
C12_SecondPassChangesNothing ==
    [][(Expanded /\ Returned /\ CallExtendYaml) =>
           (exc' = "none" /\ dict_t' = dict_t)]_vars

(* a: 1, x: {b: "{{c}}", c: "{{a}}"} after two runs: the first left
   b = "{{a}}", the second made it 1 *)
SecondPassResolvedMore ==
    /\ Expanded /\ Returned /\ calls = 2
    /\ pre_t = PyDict(<<Item(kA, PyInt(1)),
                        Item(kX, PyDict(<<Item(kB, sExprA), Item(kC, PyInt(1))>>))>>)
    /\ dict_t = PyDict(<<Item(kA, PyInt(1)),
                         Item(kX, PyDict(<<Item(kB, PyInt(1)), Item(kC, PyInt(1))>>))>>)

-----------------------------------------------------------------------------
(* Error policy *)

(* rendering the unit t in the dict local raises an error that is absorbed:
   the keyword arguments collide (TypeError), the expression divides by zero
   or raises ValueError, or its variable is undefined *)
UnitAbsorbed(t, local, root) ==
    \/ KwargsCollide(local, root)
    \/ ExprOf(t) \in {ExprZeroDivision, ExprValueError}
    \/ IsIdentifier(ExprOf(t)) /\ Undefined(ExprOf(t), local, root)

(* the unit t does not compile, or rendering it raises another error *)
UnitRaises(t, local, root) ==
    \/ Contains(t, OpenStmt)
    \/ ~(IsIdentifier(VarOf(ExprOf(t))) \/ ExprOf(t) \in RaisingExprs)
    \/ ~KwargsCollide(local, root) /\ ExprOf(t) = ExprOverflow

(* some unit of the text s raises *)
TextRaises(s, local, root) ==
    /\ IsATemplate(s)
    /\ \E i \in 1..Len(Templates(s)) : UnitRaises(Templates(s)[i], local, root)

(* some value of the dict local, or some element of one of its lists, raises *)
DictRaises(local, root) ==
    \E k \in KeysOf(local) :
        LET v == GetItem(local, k)
        IN  IF IsDict(v) THEN FALSE
            ELSE IF IsList(v)
            THEN \E i \in 1..Len(v.l) : TextRaises(PyStrOf(v.l[i]), local, root)
            ELSE TextRaises(PyStrOf(v), local, root)

DocRaises(doc) == \E path \in DictPaths(doc) : DictRaises(GetPath(doc, path), doc)

(* s is made of units that are absorbed or name a variable defined with a
   plain value, at least one of them absorbed *)
PartlyAbsorbed(s, local, root) ==
    LET ts == FindTemplates(s, 1)
    IN  /\ ~Contains(s, OpenStmt)
        /\ Len(ts) > 0
        /\ \A i \in 1..Len(ts) :
              \/ UnitAbsorbed(ts[i], local, root)
              \/ /\ IsIdentifier(ExprOf(ts[i]))
                 /\ InScope(ExprOf(ts[i]), local, root)
                 /\ PlainValue(ScopeValue(ExprOf(ts[i]), local, root))
        /\ \E i \in 1..Len(ts) : UnitAbsorbed(ts[i], local, root)

(* s with the absorbed units left as they are and the others replaced by
   str() of their value *)
AbsorbedText(s, local, root) ==
    LET ts == FindTemplates(s, 1)
    IN  Substitute(s, ts,
                   [i \in 1..Len(ts) |->
                       IF UnitAbsorbed(ts[i], local, root) THEN ts[i]
                       ELSE PyStrOf(ScopeValue(ExprOf(ts[i]), local, root))], 1)

AbsorbedAt(path) ==
    LET before == GetPath(pre_t, path)
        after == GetPath(dict_t, path)
    IN  \A k \in KeysOf(before) :
            LET v == GetItem(before, k)
            IN  (IsStr(v) /\ PartlyAbsorbed(v.s, before, pre_t)) =>
                    GetItem(after, k) = PyStr(AbsorbedText(v.s, before, pre_t))

(* C13: an undefined variable, ValueError, TypeError or ZeroDivisionError
   raised while rendering a unit is absorbed: the unit keeps its text and the
   other units and keys are processed; any other error of rendering and any
   error of compiling a unit leaves extend_yaml as an exception. *)
C13_ErrorPolicy ==
    Expanded =>
        /\ (exc = "none") <=> ~DocRaises(pre_t)
        /\ exc \notin Swallowed
        /\ exc = "none" => \A path \in DictPaths(pre_t) : AbsorbedAt(path)

(* a division by zero was absorbed and the unit behind it and the next key
   were filled *)
C13_Witness ==
    /\ Expanded /\ Returned
    /\ pre_t = PyDict(<<Item(kA, PyInt(1)),
                        Item(kX, PyDict(<<Item(kB, sExprZeroDivisionA), Item(kC, sExprA)>>))>>)
    /\ GetItem(dict_t, kX) =
           PyDict(<<Item(kB, PyStr(<<"{", "{">> \o ExprZeroDivision
                                     \o <<"}", "}", "-", "1">>)),
                    Item(kC, PyInt(1))>>)

(* an OverflowError left the call before the next key was reached *)
OverflowPropagated ==
    /\ Expanded /\ exc = "OverflowError"
    /\ pre_t = PyDict(<<Item(kA, PyInt(1)),
                        Item(kX, PyDict(<<Item(kB, sExprOverflow), Item(kC, sExprA)>>))>>)
    /\ dict_t = pre_t

-----------------------------------------------------------------------------
(* Values without template syntax *)

(* a str that holds neither "{{" nor "{%" *)
TemplateFree(x) ==
    IsStr(x) /\ ~Contains(x.s, OpenExpr) /\ ~Contains(x.s, OpenStmt)

PassedThroughAt(path) ==
    LET before == GetPath(pre_t, path)
        after == GetPath(dict_t, path)
    IN  \A k \in KeysOf(before) :
            LET v == GetItem(before, k)
                w == GetItem(after, k)
            IN  /\ TemplateFree(v) => w = v
                /\ IsList(v) =>
                      /\ IsList(w) /\ Len(w.l) = Len(v.l)
                      /\ \A i \in 1..Len(v.l) : TemplateFree(v.l[i]) => w.l[i] = v.l[i]

(* C14: extend_yaml leaves every str that holds neither "{{" nor "{%" as it
   is (same text, still a str, not coerced), as a value of a dict and as an
   element of a list. *)
C14_TemplateFreeUntouched ==
    Expanded => \A path \in DictPaths(pre_t) : PassedThroughAt(path)

(* "7" stayed the str "7" and the "x" of a list stayed, next to a template
   that was filled *)
C14_Witness ==
    /\ Expanded /\ Returned
    /\ pre_t = PyDict(<<Item(kA, PyInt(1)),
                        Item(kX, PyDict(<<Item(kB, sSeven),
                                          Item(kC, PyList(<<sExprA, sX>>))>>))>>)
    /\ GetItem(dict_t, kX) =
           PyDict(<<Item(kB, sSeven), Item(kC, PyList(<<PyInt(1), sX>>))>>)

-----------------------------------------------------------------------------
(* The "string" escape hatch *)

(* s is made of units "{{ name }}" or "{{ name|string }}" that render: the
   keyword arguments do not collide and every name is defined with a plain
   value *)
AllRendered(s, local, root) ==
    LET ts == FindTemplates(s, 1)
    IN  /\ ~Contains(s, OpenStmt)
        /\ ~KwargsCollide(local, root)
        /\ Len(ts) > 0
        /\ \A i \in 1..Len(ts) :
              /\ IsIdentifier(VarOf(ExprOf(ts[i])))
              /\ InScope(VarOf(ExprOf(ts[i])), local, root)
              /\ PlainValue(ScopeValue(VarOf(ExprOf(ts[i])), local, root))

(* s with every unit replaced by str() of the value of its variable *)
RenderedText(s, local, root) ==
    LET ts == FindTemplates(s, 1)
    IN  Substitute(s, ts,
                   [i \in 1..Len(ts) |->
                       PyStrOf(ScopeValue(VarOf(ExprOf(ts[i])), local, root))], 1)

(* some unit of s holds the text "string" *)
NamesString(s) ==
    \E i \in 1..Len(FindTemplates(s, 1)) : Contains(FindTemplates(s, 1)[i], sString)

EscapeHatchAt(path) ==
    LET before == GetPath(pre_t, path)
        after == GetPath(dict_t, path)
    IN  \A k \in KeysOf(before) :
            LET v == GetItem(before, k)
            IN  (IsStr(v) /\ AllRendered(v.s, before, pre_t)) =>
                    GetItem(after, k) =
                        IF NamesString(v.s) THEN PyStr(RenderedText(v.s, before, pre_t))
                        ELSE str_to_type(RenderedText(v.s, before, pre_t))

(* C15: a str whose units were all resolved is type-coerced if and only if
   no unit's text holds "string"; when one does, the substituted text is
   stored as a str. *)
C15_StringEscapeHatch ==
    (Expanded /\ Returned) => \A path \in DictPaths(pre_t) : EscapeHatchAt(path)

(* "{{a|string}}" became the str "1" where "{{a}}" became the integer 1 *)
C15_Witness ==
    /\ Expanded /\ Returned
    /\ pre_t = PyDict(<<Item(kA, PyInt(1)),
                        Item(kX, PyDict(<<Item(kB, sExprAString), Item(kC, sExprA)>>))>>)
    /\ GetItem(dict_t, kX) =
           PyDict(<<Item(kB, PyStr(<<"1">>)), Item(kC, PyInt(1))>>)

-----------------------------------------------------------------------------
(* Keys and lengths *)

RECURSIVE SameShape(_, _)
(* w has the dicts and lists of v: every dict with the same keys in the same
   order, every list with the same length *)
SameShape(v, w) ==
    IF IsDict(v)
    THEN /\ IsDict(w)
         /\ Len(w.m) = Len(v.m)
         /\ \A i \in 1..Len(v.m) :
               w.m[i].k = v.m[i].k /\ SameShape(v.m[i].v, w.m[i].v)
    ELSE IF IsList(v)
    THEN /\ IsList(w)
         /\ Len(w.l) = Len(v.l)
         /\ \A i \in 1..Len(v.l) : SameShape(v.l[i], w.l[i])
    ELSE TRUE

RECURSIVE HoldsDictInList(_, _)
(* some list of v holds a dict (inList: v itself is an element of a list) *)
HoldsDictInList(v, inList) ==
    IF IsDict(v)
    THEN inList \/ \E i \in 1..Len(v.m) : HoldsDictInList(v.m[i].v, FALSE)
    ELSE IF IsList(v) THEN \E i \in 1..Len(v.l) : HoldsDictInList(v.l[i], TRUE)
    ELSE FALSE

(* C16: after extend_yaml has returned, every dict of the document has the
   keys it had, in the same order, and every list has the length it had;
   only values have changed. *)
C16_KeysAndLengthsStable ==
    (Expanded /\ Returned) => SameShape(pre_t, dict_t)

(* The same for the documents that hold no dict inside a list. *)
KeysStableWithoutDictInList ==
    (Expanded /\ Returned /\ ~HoldsDictInList(pre_t, FALSE)) => SameShape(pre_t, dict_t)

(* the dict {c: "{{a}}"} inside a list has become the str "{'c': '1'}" *)
DictInListBecameStr ==
    /\ Expanded /\ Returned
    /\ pre_t = PyDict(<<Item(kA, PyInt(1)),
                        Item(kX, PyDict(<<Item(kB,
                            PyList(<<PyDict(<<Item(kC, sExprA)>>), sSeven>>))>>))>>)
    /\ GetItem(dict_t, kX) =
           PyDict(<<Item(kB, PyList(<<PyStr(<<"{", "'", "c", "'", ":", " ", "'", "1", "'", "}">>),
                                      sSeven>>))>>)

-----------------------------------------------------------------------------
(* Repeated tags of the XML adapter *)

(* the root element of the document that was loaded *)
LoadedRoot == fromstring(config_file_or_string).elem

(* what xml_to_dict enters for one child: its value, or with attributes the
   dict cfg_l of the attributes and the value *)
ChildValue(child) ==
    LET value == IF Len(child.children) > 0 THEN xml_to_dict(child)
                 ELSE TextValue(child.text)
        a == PyDict(<<Item(kAttrib, child.attrib)>>)
    IN  IF Len(child.attrib.m) = 0 THEN value
        ELSE IF IsDict(value) THEN DictUpdate(a, value.m, 1)
        ELSE IF ~IsNone(value) THEN SetItem(a, kValuea, value)
        ELSE a

(* the children of root with the tag k, in document order *)
Occurrences(root, k) == SelectSeq(root.children, LAMBDA c : c.tag = k)

(* the tags that occur twice or more under root *)
RepeatedTags(root) ==
    {k \in {root.children[i].tag : i \in 1..Len(root.children)} :
        Len(Occurrences(root, k)) >= 2}

(* the list of the values of the occurrences of k *)
OccurrenceValues(root, k) ==
    LET occ == Occurrences(root, k)
    IN  PyList([i \in 1..Len(occ) |-> ChildValue(occ[i])])

(* C21: a tag that occurs n >= 2 times under the root is stored as the list
   of the n values of its occurrences, in document order, also when an
   occurrence is empty or its text parses to a list. *)
C21_RepeatedTagsBecomeList ==
    (XmlLoaded /\ calls = 1 /\ exc = "none") =>
        \A k \in RepeatedTags(LoadedRoot) :
            /\ HasKey(ret, k)
            /\ GetItem(ret, k) = OccurrenceValues(LoadedRoot, k)

(* the first occurrence of the tag is entered as a value that is no list *)
FirstOccurrenceKept(root, k) ==
    LET first == ChildValue(Occurrences(root, k)[1])
    IN  ~IsList(first) /\ (IsNone(first) => Len(Occurrences(root, k)[1].attrib.m) # 0)

(* where the first occurrence is entered and is no list, the tag is stored
   as the list of the values of its occurrences *)
RepeatedTagsAfterKeptFirst ==
    (XmlLoaded /\ calls = 1 /\ exc = "none") =>
        \A k \in RepeatedTags(LoadedRoot) :
            FirstOccurrenceKept(LoadedRoot, k) =>
                /\ HasKey(ret, k)
                /\ GetItem(ret, k) = OccurrenceValues(LoadedRoot, k)

(* <root><x/><x>hello</x></root> is loaded as {"x": "hello"} *)
EmptyFirstOccurrenceLost ==
    /\ XmlLoaded /\ calls = 1 /\ exc = "none"
    /\ config_file_or_string = InRoot(xEmpty \o xText)
    /\ ret = PyDict(<<Item(kX, PyStr(sHello))>>)

(* <root><x>(1 2)</x><x>hello</x></root> is loaded as {"x": [1, 2, "hello"]} *)
ListFirstOccurrenceExtended ==
    /\ XmlLoaded /\ calls = 1 /\ exc = "none"
    /\ config_file_or_string = InRoot(xList \o xText)
    /\ ret = PyDict(<<Item(kX, PyList(<<PyInt(1), PyInt(2), PyStr(sHello)>>))>>)

(* <root><x>hello</x><x/></root> is loaded as {"x": ["hello", None]} *)
EmptyLaterOccurrenceListed ==
    /\ XmlLoaded /\ calls = 1 /\ exc = "none"
    /\ config_file_or_string = InRoot(xText \o xEmpty)
    /\ ret = PyDict(<<Item(kX, PyList(<<PyStr(sHello), PyNone>>))>>)

-----------------------------------------------------------------------------
(* Mixed content of the XML adapter *)

(* the child has text and child elements *)
IsMixed(child) == HasText(child) /\ Len(child.children) > 0

(* C22: for an element with text and child elements, the dict built for the
   element holds the text under "valuea", next to the keys of its
   children. *)
C22_MixedTextUnderValuea ==
    (XmlLoaded /\ calls = 1 /\ exc = "none") =>
        \A i \in 1..Len(LoadedRoot.children) :
            LET child == LoadedRoot.children[i]
            IN  (IsMixed(child) /\ Len(Occurrences(LoadedRoot, child.tag)) = 1) =>
                    /\ HasKey(ret, child.tag)
                    /\ IsDict(GetItem(ret, child.tag))
                    /\ HasKey(GetItem(ret, child.tag), kValuea)
                    /\ GetItem(GetItem(ret, child.tag), kValuea) = TextValue(child.text)
                    /\ \A j \in 1..Len(child.children) :
                           HasKey(GetItem(ret, child.tag), child.children[j].tag)

(* the dict built for an element that has child elements holds no "valuea" *)
MixedTextNeverStored ==
    (XmlLoaded /\ calls = 1 /\ exc = "none") =>
        \A i \in 1..Len(LoadedRoot.children) :
            LET child == LoadedRoot.children[i]
            IN  (IsMixed(child) /\ Len(Occurrences(LoadedRoot, child.tag)) = 1) =>
                    /\ IsDict(GetItem(ret, child.tag))
                    /\ ~HasKey(GetItem(ret, child.tag), kValuea)

(* <root><x>hello<y>1</y></x></root> is loaded as {"x": {"y": 1}} *)
MixedTextDropped ==
    /\ XmlLoaded /\ calls = 1 /\ exc = "none"
    /\ config_file_or_string = InRoot(xMixed)
    /\ ret = PyDict(<<Item(kX, PyDict(<<Item(<<"y">>, PyInt(1))>>))>>)

(* <root><x a="1">hello<y>1</y></x></root> is loaded as
   {"x": {"attrib": {"a": "1"}, "y": 1}} *)
AttrMixedTextDropped ==
    /\ XmlLoaded /\ calls = 1 /\ exc = "none"
    /\ config_file_or_string = InRoot(xAttrMixed)
    /\ ret = PyDict(<<Item(kX, PyDict(<<Item(kAttrib, PyDict(<<Item(kA, PyStr(<<"1">>))>>)),
                                        Item(<<"y">>, PyInt(1))>>))>>)

-----------------------------------------------------------------------------
(* load_shell_config *)

sSection == <<"#", " ", "[">>
sContinuation == <<"\\", NL>>

(* load_shell_as_ini_config: the contents of the file are read; for a text
   that names no file the else branch reads the name config_file, which is
   bound nowhere *)
load_shell_as_ini_config(cfs, fs) ==
    IF cfs \in DOMAIN fs
    THEN load_ini_config(Replace(Replace(fs[cfs], 1, sSection, <<"[">>), 1,
                                 sContinuation, <<" ">>))
    ELSE [ret |-> PyNone, exc |-> "NameError"]

(* load_shell_config: the structured form first; any exception of it is
   swallowed and the subprocess form follows, whose command is built from
   the name config_file, which is bound nowhere *)
load_shell_config(cfs, fs) ==
    Strict(LAMBDA r :
               IF r.exc = "none"
               THEN [ret |-> r.ret, exc |-> "none",
                     adapters |-> <<"load_shell_as_ini_config">>]
               ELSE [ret |-> PyNone, exc |-> "NameError",
                     adapters |-> <<"load_shell_as_ini_config", "subprocess">>],
           load_shell_as_ini_config(cfs, fs))

(* lines of shell text: "# [s]", "# [t]", "a=1", "k=( 1 2 )", "b=x \" and
   "# note" *)
ShellLines ==
    {<<"#", " ", "[", "s", "]">>, <<"#", " ", "[", "t", "]">>, <<"a", "=", "1">>,
     <<"k", "=", "(", " ", "1", " ", "2", " ", ")">>, <<"b", "=", "x", " ", "\\">>,
     <<"#", " ", "n", "o", "t", "e">>}

(* texts of one to three lines *)
ShellTexts ==
    {l1 \o <<NL>> : l1 \in ShellLines}
        \cup {l1 \o <<NL>> \o l2 \o <<NL>> : l1 \in ShellLines, l2 \in ShellLines}
        \cup {l1 \o <<NL>> \o l2 \o <<NL>> \o l3 \o <<NL>> :
                  l1 \in ShellLines, l2 \in ShellLines, l3 \in ShellLines}

(* the text is handed over as it is, or as the path of a file that holds it *)
InitShell ==
    /\ op = "none"
    /\ dict_o = EmptyDict
    /\ dict_t = EmptyDict
    /\ pre_t = dict_t
    /\ provide_default = FALSE
    /\ keys = PyNone
    /\ keys_regex = <<>>
    /\ ret = PyNone
    /\ exc = "none"
    /\ calls = 0
    /\ ext = eSh
    /\ context = PyNone
    /\ adapters = <<>>
    /\ \E text \in ShellTexts :
           \/ config_file_or_string = text /\ files = <<>>
           \/ config_file_or_string = pSh /\ files = [path \in {pSh} |-> text]
    /\ NoMain
    /\ NoHeap

(* cfg = load_shell_config(config_file_or_string) *)
CallLoadShellConfig ==
    /\ calls < MaxCalls
    /\ op = "none"
    /\ LET r == load_shell_config(config_file_or_string, files)
       IN  /\ ret' = r.ret
           /\ exc' = r.exc
           /\ adapters' = r.adapters
    /\ op' = "load_shell_config"
    /\ calls' = calls + 1
    /\ UNCHANGED <<dict_o, dict_t, pre_t, provide_default, keys, keys_regex>>
    /\ UNCHANGED <<config_file_or_string, ext, context, files>>
    /\ UNCHANGED mainVars
    /\ UNCHANGED heap

NextShell == CallLoadShellConfig

SpecShell == InitShell /\ [][NextShell]_vars

(* Properties of load_shell_config *)

ShellLoaded == op = "load_shell_config"

(* the shell text: the contents of the file, or the string *)
ShellText ==
    IF config_file_or_string \in DOMAIN files THEN files[config_file_or_string]
    ELSE config_file_or_string

(* load_ini_config of the text with every "# [" replaced by "[" *)
AsIni(text) == load_ini_config(Replace(text, 1, sSection, <<"[">>))

(* comments "# [section]" mark the sections of the text *)
IsStructuredShell(text) == Contains(text, sSection) /\ AsIni(text).exc = "none"

(* C23: for structured shell text, given as a file or as a string,
   load_shell_config returns what load_ini_config returns for the text with
   every "# [" replaced by "[", and the subprocess form is not reached. *)
C23_StructuredShellAsIni ==
    (ShellLoaded /\ IsStructuredShell(ShellText)) =>
        /\ exc = "none"
        /\ ret = AsIni(ShellText).ret
        /\ adapters = <<"load_shell_as_ini_config">>

(* for a file of structured shell text without a continuation line,
   load_shell_config returns what load_ini_config returns for the replaced
   text, and the subprocess form is not reached *)
StructuredShellFileAsIni ==
    (ShellLoaded /\ IsStructuredShell(ShellText)
        /\ config_file_or_string \in DOMAIN files
        /\ ~Contains(ShellText, sContinuation)) =>
        /\ exc = "none"
        /\ ret = AsIni(ShellText).ret
        /\ adapters = <<"load_shell_as_ini_config">>

(* every text given as a string leaves the call with NameError, after the
   structured form has failed *)
ShellStringRaises ==
    (ShellLoaded /\ config_file_or_string \notin DOMAIN files) =>
        /\ exc = "NameError"
        /\ adapters = <<"load_shell_as_ini_config", "subprocess">>

(* the string "# [s]\na=1\n" left the call with NameError *)
StructuredStringRaised ==
    /\ ShellLoaded
    /\ files = <<>>
    /\ config_file_or_string = <<"#", " ", "[", "s", "]", NL, "a", "=", "1", NL>>
    /\ exc = "NameError"

(* the file "# [s]\na=1\n" was loaded as {"s": {"a": 1}} *)
StructuredFileLoaded ==
    /\ ShellLoaded
    /\ config_file_or_string = pSh
    /\ files[pSh] = <<"#", " ", "[", "s", "]", NL, "a", "=", "1", NL>>
    /\ exc = "none"
    /\ ret = PyDict(<<Item(kS, PyDict(<<Item(kA, PyInt(1))>>))>>)

(* the file "# [s]\nb=x \\\na=1\n" was loaded as {"s": {"b": "x  a=1"}} *)
ContinuationJoined ==
    /\ ShellLoaded
    /\ config_file_or_string = pSh
    /\ files[pSh] = <<"#", " ", "[", "s", "]", NL, "b", "=", "x", " ", "\\", NL,
                      "a", "=", "1", NL>>
    /\ exc = "none"
    /\ ret = PyDict(<<Item(kS, PyDict(<<Item(kB,
                 PyStr(<<"x", " ", " ", "a", "=", "1">>))>>))>>)

-----------------------------------------------------------------------------
(* load_json_config *)

JsonSpace == {" ", NL}
JsonSkip(s, i) == FirstWhere(s, i, JsonSpace, FALSE)

(* the end of the number that starts with the digit at i: a number that
   starts with 0 has no further digits *)
JsonNumberEnd(s, i) ==
    IF s[i] = "0" THEN i + 1
    ELSE FirstWhere(s, i, {Digits[d] : d \in 1..Len(Digits)}, FALSE)

JsonLiterals ==
    {[text |-> <<"n", "u", "l", "l">>, val |-> PyNone],
     [text |-> <<"t", "r", "u", "e">>, val |-> PyBool(TRUE)],
     [text |-> <<"f", "a", "l", "s", "e">>, val |-> PyBool(FALSE)]}

RECURSIVE ParseJson(_, _)
RECURSIVE ParseMembers(_, _, _, _)
RECURSIVE ParseItems(_, _, _, _)

(* the members of an object from position i on; first: no member was read
   yet, so the object may end here *)
ParseMembers(s, i, d, first) ==
    LET j == JsonSkip(s, i)
        q == NextPos(<<"\"">>, s, j + 1)
        c == JsonSkip(s, q + 1)
    IN  IF j > Len(s) THEN ParseFailed
        ELSE IF s[j] = "}" THEN (IF first THEN [ok |-> TRUE, val |-> d, next |-> j + 1]
                                 ELSE ParseFailed)
        ELSE IF s[j] # "\"" \/ q > Len(s) \/ c > Len(s) THEN ParseFailed
        ELSE IF s[c] # ":" THEN ParseFailed
        ELSE Strict(LAMBDA v :
                 IF ~v.ok THEN ParseFailed
                 ELSE LET n == JsonSkip(s, v.next)
                          entered == SetItem(d, SubSeq(s, j + 1, q - 1), v.val)
                      IN  IF n > Len(s) THEN ParseFailed
                          ELSE IF s[n] = "}"
                          THEN [ok |-> TRUE, val |-> entered, next |-> n + 1]
                          ELSE IF s[n] = ","
                          THEN Strict(LAMBDA e : ParseMembers(s, n + 1, e, FALSE), entered)
                          ELSE ParseFailed,
                 ParseJson(s, c + 1))

(* the elements of an array from position i on *)
ParseItems(s, i, l, first) ==
    LET j == JsonSkip(s, i)
    IN  IF j > Len(s) THEN ParseFailed
        ELSE IF s[j] = "]" /\ first THEN [ok |-> TRUE, val |-> PyList(l), next |-> j + 1]
        ELSE Strict(LAMBDA v :
                 IF ~v.ok THEN ParseFailed
                 ELSE LET n == JsonSkip(s, v.next)
                      IN  IF n > Len(s) THEN ParseFailed
                          ELSE IF s[n] = "]"
                          THEN [ok |-> TRUE, val |-> PyList(Append(l, v.val)), next |-> n + 1]
                          ELSE IF s[n] = ","
                          THEN Strict(LAMBDA e : ParseItems(s, n + 1, e, FALSE),
                                      Append(l, v.val))
                          ELSE ParseFailed,
                 ParseJson(s, j))

(* the JSON value that starts at or after position i *)
ParseJson(s, i) ==
    LET j == JsonSkip(s, i)
    IN  IF j > Len(s) THEN ParseFailed
        ELSE IF s[j] = "{" THEN ParseMembers(s, j + 1, EmptyDict, TRUE)
        ELSE IF s[j] = "[" THEN ParseItems(s, j + 1, <<>>, TRUE)
        ELSE IF s[j] = "\""
        THEN LET q == NextPos(<<"\"">>, s, j + 1)
             IN  IF q > Len(s) THEN ParseFailed
                 ELSE [ok |-> TRUE, val |-> PyStr(SubSeq(s, j + 1, q - 1)), next |-> q + 1]
        ELSE IF IsDigit(s[j])
        THEN [ok |-> TRUE,
              val |-> PyInt(StrToInt(SubSeq(s, j, JsonNumberEnd(s, j) - 1), 0)),
              next |-> JsonNumberEnd(s, j)]
        ELSE IF \E lit \in JsonLiterals : OccursAt(lit.text, s, j)
        THEN LET lit == CHOOSE t \in JsonLiterals : OccursAt(t.text, s, j)
             IN  [ok |-> TRUE, val |-> lit.val, next |-> j + Len(lit.text)]
        ELSE ParseFailed

(* json.loads: one value, with white space only behind it *)
loads(s) ==
    Strict(LAMBDA r :
               IF ~r.ok THEN ParseFailed
               ELSE IF JsonSkip(s, r.next) <= Len(s) THEN ParseFailed
               ELSE r,
           ParseJson(s, 1))

(* load_json_config: the handler of JSONDecodeError formats its message from
   the name config_file, which is bound nowhere, so NameError leaves the
   call in place of the Exception of line 265 *)
load_json_config(cfs, fs) ==
    Strict(LAMBDA r :
               IF r.ok THEN [ret |-> r.val, exc |-> "none"]
               ELSE [ret |-> PyNone, exc |-> "NameError"],
           loads(IF cfs \in DOMAIN fs THEN fs[cfs] ELSE cfs))

(* the tokens {, }, [, ], "a":, "b", 1 and , *)
JsonTokens ==
    {<<"{">>, <<"}">>, <<"[">>, <<"]">>, <<"\"", "a", "\"", ":">>, <<"\"", "b", "\"">>,
     <<"1">>, <<",">>}

(* texts of one to MaxTokens tokens *)
MaxTokens == 4

RECURSIVE TokenTexts(_)
TokenTexts(n) ==
    IF n = 0 THEN {<<>>}
    ELSE LET shorter == TokenTexts(n - 1)
         IN  shorter \cup {t \o k : t \in shorter, k \in JsonTokens}

JsonTexts == TokenTexts(MaxTokens) \ {<<>>}

(* the text is handed over as it is, or as the path of a file that holds it *)
InitJson ==
    /\ op = "none"
    /\ dict_o = EmptyDict
    /\ dict_t = EmptyDict
    /\ pre_t = dict_t
    /\ provide_default = FALSE
    /\ keys = PyNone
    /\ keys_regex = <<>>
    /\ ret = PyNone
    /\ exc = "none"
    /\ calls = 0
    /\ ext = eJson
    /\ context = PyNone
    /\ adapters = <<>>
    /\ \E text \in JsonTexts :
           \/ config_file_or_string = text /\ files = <<>>
           \/ config_file_or_string = pJson /\ files = [path \in {pJson} |-> text]
    /\ NoMain
    /\ NoHeap

(* cfg = load_json_config(config_file_or_string) *)
CallLoadJsonConfig ==
    /\ calls < MaxCalls
    /\ LET r == load_json_config(config_file_or_string, files)
       IN  /\ ret' = r.ret
           /\ exc' = r.exc
    /\ op' = "load_json_config"
    /\ adapters' = Append(adapters, "load_json_config")
    /\ calls' = calls + 1
    /\ UNCHANGED <<dict_o, dict_t, pre_t, provide_default, keys, keys_regex>>
    /\ UNCHANGED <<config_file_or_string, ext, context, files>>
    /\ UNCHANGED mainVars
    /\ UNCHANGED heap

NextJson == CallLoadJsonConfig

SpecJson == InitJson /\ [][NextJson]_vars

(* Properties of load_json_config *)

JsonLoaded == op = "load_json_config"

(* the JSON text: the contents of the file, or the string *)
JsonText ==
    IF config_file_or_string \in DOMAIN files THEN files[config_file_or_string]
    ELSE config_file_or_string

(* json.loads raises JSONDecodeError on the text *)
Malformed(text) == ~loads(text).ok

(* C24: on text that is not valid JSON, load_json_config raises the error
   that reports that the JSON could not be loaded and names the document
   (the Exception of line 265), returns no value and does not try again. *)
C24_MalformedJsonReported ==
    (JsonLoaded /\ Malformed(JsonText)) =>
        /\ exc = "Exception"
        /\ ret = PyNone

(* on text that is not valid JSON every call raises NameError and returns
   no value; valid JSON is returned as its value *)
MalformedJsonRaisesNameError ==
    JsonLoaded =>
        /\ Malformed(JsonText) => (exc = "NameError" /\ ret = PyNone)
        /\ ~Malformed(JsonText) => (exc = "none" /\ ret = loads(JsonText).val)

(* the string {"a": was given: NameError *)
MalformedStringRaised ==
    /\ JsonLoaded /\ calls = 1
    /\ files = <<>>
    /\ config_file_or_string = <<"{", "\"", "a", "\"", ":">>
    /\ exc = "NameError"

(* a file that holds { was given twice: NameError both times *)
MalformedFileRaisedAgain ==
    /\ JsonLoaded /\ calls = 2
    /\ config_file_or_string = pJson
    /\ files[pJson] = <<"{">>
    /\ exc = "NameError"

(* the string {"a":1} was loaded as {"a": 1} *)
ValidJsonLoaded ==
    /\ JsonLoaded
    /\ config_file_or_string = <<"{", "\"", "a", "\"", ":", "1", "}">>
    /\ exc = "none"
    /\ ret = PyDict(<<Item(kA, PyInt(1))>>)

-----------------------------------------------------------------------------
(* cfg_main *)

(* bool(x) for the values of the command line *)
Truthy(x) ==
    /\ ~IsNone(x)
    /\ IsStr(x) => x.s # <<>>
    /\ IsList(x) => x.l # <<>>
    /\ x.tag = "bool" => x.b

sInvalidEntry ==
    <<"I", "N", "V", "A", "L", "I", "D", " ", "E", "N", "T", "R", "Y", ":", " ">>
sFailure == <<"F", "A", "I", "L", "U", "R", "E">>
sSuccess == <<"S", "U", "C", "C", "E", "S", "S">>
sUsage == <<"u", "s", "a", "g", "e", ":">>

(* f"INVALID ENTRY: {k}={r[k]}" *)
InvalidLine(k, v) == sInvalidEntry \o k \o <<"=">> \o PyStrOf(v)

(* a plausible slip: SUCCESS is printed whatever the result holds *)
MutFinalLine(r) == sSuccess

(* the line printed after the invalid entries *)
FinalLine(r) == IF Len(r.m) > 0 THEN sFailure ELSE sSuccess

(* check_structure_dict(cfg, cfg_t) raises AttributeError when it calls
   .items() or .keys() on None *)
CheckRaises(cfg, cfg_t) == IsNone(cfg) \/ (IsNone(cfg_t) /\ Len(cfg.m) > 0)

(* the else branch of cfg_main up to the dict that is written: template,
   keys and flatten in this order *)
Selected(cfg, cfg_t, a) ==
    LET structured == IF Truthy(a.template)
                      THEN structure_dict(flatten_dict(cfg, PyNone), cfg_t)
                      ELSE cfg
        filtered == IF Truthy(a.keys)
                    THEN filter_dict(structured,
                                     [i \in 1..Len(a.keys.l) |-> a.keys.l[i].s])
                    ELSE structured
    IN  IF a.flatten.b THEN flatten_dict(filtered, PyNone) ELSE filtered

(* the else branch raises AttributeError when a step works on None *)
ConvertRaises(cfg, cfg_t, a) ==
    \/ IsNone(cfg) /\ (Truthy(a.template) \/ Truthy(a.keys) \/ a.flatten.b
                          \/ ~IsNone(a.out_type))
    \/ ~IsNone(cfg) /\ Truthy(a.template) /\ IsNone(cfg_t)

(* what the else branch prints: the converted text, or the help text; the
   output types of the model are ini, xml and none *)
Converted(cfg, cfg_t, a) ==
    IF a.out_type = PyStr(eIni) THEN cfg_to_ini_str(Selected(cfg, cfg_t, a), PyNone)
    ELSE IF a.out_type = PyStr(eXml) THEN cfg_to_xml_str(Selected(cfg, cfg_t, a))
    ELSE sUsage

(* what load_config_file returns for the files named on the command line:
   a document, or None for an extension it does not know *)
MainDocs ==
    OrderedDictsAB({PyInt(1), PyDict(<<Item(kA, PyInt(2))>>),
                    PyDict(<<Item(kB, PyInt(2))>>)}) \cup {PyNone}
MainTemplates == DictsAB({PyInt(0), PyDict(<<Item(kA, PyInt(0))>>)}) \cup {PyNone}

MainArgs ==
    [validate : {PyNone, PyStr(pYaml)},
     template : {PyNone, PyStr(pTemplate)},
     keys : {PyNone, PyList(<<PyStr(kA)>>)},
     flatten : {PyBool(FALSE), PyBool(TRUE)},
     out_type : {PyNone, PyStr(eIni), PyStr(eXml)}]

(* args = parser.parse_args() *)
InitMain ==
    /\ op = "none"
    /\ dict_o = EmptyDict
    /\ dict_t = EmptyDict
    /\ pre_t = dict_t
    /\ provide_default = FALSE
    /\ keys = PyNone
    /\ keys_regex = <<>>
    /\ ret = PyNone
    /\ exc = "none"
    /\ calls = 0
    /\ NoLoader
    /\ args \in MainArgs
    /\ stdout = <<>>
    /\ NoHeap

(* cfg = load_config_file(args.cfg, 2, args.context) *)
MainLoadCfg ==
    /\ op = "none"
    /\ dict_o' \in MainDocs
    /\ op' = "cfg"
    /\ UNCHANGED <<dict_t, pre_t, provide_default, keys, keys_regex, ret, exc, calls>>
    /\ UNCHANGED <<loaderVars, mainVars, heap>>

(* cfg_t = load_config_file(args.validate, 1) *)
MainLoadValidate ==
    /\ op = "cfg"
    /\ Truthy(args.validate)
    /\ dict_t' \in MainTemplates
    /\ pre_t' = dict_t'
    /\ op' = "cfg_t"
    /\ UNCHANGED <<dict_o, provide_default, keys, keys_regex, ret, exc, calls>>
    /\ UNCHANGED <<loaderVars, mainVars, heap>>

(* r = check_structure_dict(cfg, cfg_t) *)
MainCheck ==
    /\ op = "cfg_t"
    /\ IF CheckRaises(dict_o, dict_t)
       THEN exc' = "AttributeError" /\ op' = "raised" /\ ret' = ret
       ELSE ret' = check_structure_dict(dict_o, dict_t) /\ op' = "r" /\ exc' = exc
    /\ UNCHANGED <<dict_o, dict_t, pre_t, provide_default, keys, keys_regex, calls>>
    /\ UNCHANGED <<loaderVars, mainVars, heap>>

(* one pass of the loop for k in r: print(f"INVALID ENTRY: {k}={r[k]}") *)
MainPrintInvalid ==
    /\ op = "r"
    /\ Len(stdout) < Len(ret.m)
    /\ stdout' = Append(stdout, InvalidLine(ret.m[Len(stdout) + 1].k,
                                            ret.m[Len(stdout) + 1].v))
    /\ UNCHANGED <<op, dict_o, dict_t, pre_t, provide_default, keys, keys_regex, ret,
                   exc, calls, args>>
    /\ UNCHANGED <<loaderVars, heap>>

(* print("FAILURE") behind the loop, or print("SUCCESS") *)
MainPrintFinal ==
    /\ op = "r"
    /\ Len(stdout) = Len(ret.m)
    /\ stdout' = Append(stdout, FinalLine(ret))
    /\ op' = "done"
    /\ UNCHANGED <<dict_o, dict_t, pre_t, provide_default, keys, keys_regex, ret, exc,
                   calls, args>>
    /\ UNCHANGED <<loaderVars, heap>>

(* the else branch: the template is loaded if one is given, the dict is
   selected and its text, or the help text, is printed *)
MainConvert ==
    /\ op = "cfg"
    /\ ~Truthy(args.validate)
    /\ dict_t' \in (IF Truthy(args.template) /\ ~IsNone(dict_o) THEN MainTemplates
                    ELSE {dict_t})
    /\ pre_t' = dict_t'
    /\ IF ConvertRaises(dict_o, dict_t', args)
       THEN exc' = "AttributeError" /\ op' = "raised" /\ stdout' = stdout
       ELSE /\ stdout' = Append(stdout, Converted(dict_o, dict_t', args))
            /\ op' = "done"
            /\ exc' = exc
    /\ UNCHANGED <<dict_o, provide_default, keys, keys_regex, ret, calls, args>>
    /\ UNCHANGED <<loaderVars, heap>>

NextMain ==
    \/ MainLoadCfg
    \/ MainLoadValidate
    \/ MainCheck
    \/ MainPrintInvalid
    \/ MainPrintFinal
    \/ MainConvert

SpecMain == InitMain /\ [][NextMain]_vars

(* the process runs on until it ends or raises *)
SpecMainFair == SpecMain /\ WF_vars(NextMain)

(* Properties of cfg_main *)

ValidateMode == Truthy(args.validate)

(* the lines for the entries m[i..] of the result *)
RECURSIVE InvalidLinesFrom(_, _)
InvalidLinesFrom(m, i) ==
    IF i > Len(m) THEN <<>>
    ELSE <<sInvalidEntry \o m[i].k \o <<"=">> \o PyStrOf(m[i].v)>>
             \o InvalidLinesFrom(m, i + 1)

(* what validate mode prints for the result r *)
ValidateOutput(r) ==
    InvalidLinesFrom(r.m, 1) \o <<IF r.m # <<>> THEN sFailure ELSE sSuccess>>

(* p is the first Len(p) elements of q *)
IsPrefix(p, q) == Len(p) <= Len(q) /\ SubSeq(q, 1, Len(p)) = p

(* what has been printed in validate mode: nothing before the check, a
   prefix of the invalid entries and the final line after it, all of them at
   the end *)
ValidatePrinted ==
    ValidateMode =>
        /\ op \in {"none", "cfg", "cfg_t", "raised"} => stdout = <<>>
        /\ op = "r" => /\ IsPrefix(stdout, ValidateOutput(ret))
                       /\ Len(stdout) <= Len(ret.m)
        /\ op = "done" => stdout = ValidateOutput(ret)

(* C25: in validate mode cfg_main prints one INVALID ENTRY line per entry of
   check_structure_dict's result, in order, then exactly one final line,
   FAILURE for a non-empty result and SUCCESS for an empty one, and nothing
   else, whatever the template, keys, flatten and output-type options are;
   once check_structure_dict has returned, the final line is printed. *)
C25_ValidateMode ==
    /\ []ValidatePrinted
    /\ (ValidateMode /\ op = "r") ~> (op = "done")

(* validate mode with a template, keys, flatten and an output type: two
   invalid entries and FAILURE were printed *)
C25_Witness ==
    /\ ValidateMode /\ op = "done"
    /\ Truthy(args.template) /\ Truthy(args.keys) /\ args.flatten.b
    /\ args.out_type = PyStr(eIni)
    /\ Len(ret.m) = 2
    /\ stdout = <<InvalidLine(kA, PyInt(1)), InvalidLine(kB, PyInt(1)), sFailure>>

(* validate mode with an empty result: SUCCESS alone was printed *)
ValidateSucceeded ==
    /\ ValidateMode /\ op = "done"
    /\ ret = EmptyDict
    /\ stdout = <<sSuccess>>

(* without a validation template the converted text was printed *)
ConvertedPrinted ==
    /\ ~ValidateMode /\ op = "done"
    /\ args.out_type = PyStr(eXml)
    /\ Len(stdout) = 1 /\ Contains(stdout[1], XmlDeclaration)

(* a file of an unknown extension in validate mode: AttributeError, nothing
   printed *)
ValidateRaised ==
    /\ ValidateMode /\ op = "raised"
    /\ dict_o = PyNone
    /\ exc = "AttributeError" /\ stdout = <<>>

-----------------------------------------------------------------------------
(* load_yaml_config and the !include tag *)

(* the nodes of a composed YAML document *)
ScalarNode(tag, value) == [kind |-> "scalar", tag |-> tag, value |-> value]
SequenceNode(tag, items) == [kind |-> "sequence", tag |-> tag, items |-> items]
MappingNode(tag, pairs) == [kind |-> "mapping", tag |-> tag, pairs |-> pairs]

YamlIndicators == {"{", "}", "[", "]", ",", ":", "!", " ", NL}
YamlSkip(s, i) == FirstWhere(s, i, {" "}, FALSE)
PlainEnd(s, i) == FirstWhere(s, i, YamlIndicators, TRUE)

RECURSIVE ComposeNode(_, _)
RECURSIVE ComposePairs(_, _, _, _)
RECURSIVE ComposeItems(_, _, _, _)

(* the pairs of a flow mapping from position i on *)
ComposePairs(s, i, pairs, first) ==
    LET j == YamlSkip(s, i)
        e == PlainEnd(s, j)
    IN  IF j > Len(s) THEN ParseFailed
        ELSE IF s[j] = "}" /\ first
        THEN [ok |-> TRUE, node |-> MappingNode(<<>>, pairs), next |-> j + 1]
        ELSE IF e = j \/ e + 1 > Len(s) THEN ParseFailed
        ELSE IF s[e] # ":" \/ s[e + 1] # " " THEN ParseFailed
        ELSE Strict(LAMBDA v :
                 IF ~v.ok THEN ParseFailed
                 ELSE LET n == YamlSkip(s, v.next)
                          entered == Append(pairs, [k |-> SubSeq(s, j, e - 1), v |-> v.node])
                      IN  IF n > Len(s) THEN ParseFailed
                          ELSE IF s[n] = "}"
                          THEN [ok |-> TRUE, node |-> MappingNode(<<>>, entered),
                                next |-> n + 1]
                          ELSE IF s[n] = ","
                          THEN Strict(LAMBDA p : ComposePairs(s, n + 1, p, FALSE), entered)
                          ELSE ParseFailed,
                 ComposeNode(s, e + 1))

(* the items of a flow sequence from position i on *)
ComposeItems(s, i, items, first) ==
    LET j == YamlSkip(s, i)
    IN  IF j > Len(s) THEN ParseFailed
        ELSE IF s[j] = "]" /\ first
        THEN [ok |-> TRUE, node |-> SequenceNode(<<>>, items), next |-> j + 1]
        ELSE Strict(LAMBDA v :
                 IF ~v.ok THEN ParseFailed
                 ELSE LET n == YamlSkip(s, v.next)
                      IN  IF n > Len(s) THEN ParseFailed
                          ELSE IF s[n] = "]"
                          THEN [ok |-> TRUE,
                                node |-> SequenceNode(<<>>, Append(items, v.node)),
                                next |-> n + 1]
                          ELSE IF s[n] = ","
                          THEN Strict(LAMBDA l : ComposeItems(s, n + 1, l, FALSE),
                                      Append(items, v.node))
                          ELSE ParseFailed,
                 ComposeNode(s, j))

(* the node that starts at or after position i: a flow mapping, a flow
   sequence, a tagged node or a plain scalar *)
ComposeNode(s, i) ==
    LET j == YamlSkip(s, i)
    IN  IF j > Len(s) THEN ParseFailed
        ELSE IF s[j] = "{" THEN ComposePairs(s, j + 1, <<>>, TRUE)
        ELSE IF s[j] = "[" THEN ComposeItems(s, j + 1, <<>>, TRUE)
        ELSE IF s[j] = "!"
        THEN LET e == PlainEnd(s, j + 1)
             IN  IF e = j + 1 THEN ParseFailed
                 ELSE Strict(LAMBDA v :
                          IF ~v.ok THEN ParseFailed
                          ELSE [ok |-> TRUE,
                                node |-> [v.node EXCEPT !.tag = SubSeq(s, j, e - 1)],
                                next |-> v.next],
                          ComposeNode(s, e))
        ELSE IF PlainEnd(s, j) = j THEN ParseFailed
        ELSE [ok |-> TRUE, node |-> ScalarNode(<<>>, SubSeq(s, j, PlainEnd(s, j) - 1)),
              next |-> PlainEnd(s, j)]

(* the single document of the text; blanks and line ends may follow it *)
Compose(s) ==
    Strict(LAMBDA r :
               IF ~r.ok THEN ParseFailed
               ELSE IF FirstWhere(s, r.next, {" ", NL}, FALSE) <= Len(s) THEN ParseFailed
               ELSE r,
           ComposeNode(s, 1))

tagInclude == <<"!", "i", "n", "c", "l", "u", "d", "e">>
tagJoinStr == <<"!", "j", "o", "i", "n", "_", "s", "t", "r">>

(* construct_object calls constructor(loader, node): two arguments *)
ConstructorArgs == 2

(* the number of parameters of def include(filepaths) *)
IncludeArity == 1

(* the value of an untagged plain scalar *)
ResolveScalar(v) ==
    IF v \in {<<"n", "u", "l", "l">>, <<"~">>} THEN PyNone
    ELSE IF Len(v) > 0 /\ \A i \in 1..Len(v) : IsDigit(v[i]) THEN PyInt(StrToInt(v, 0))
    ELSE PyStr(v)

RECURSIVE Construct(_, _)
RECURSIVE ConstructItems(_, _, _, _)
RECURSIVE ConstructPairs(_, _, _, _)
RECURSIVE include(_, _, _, _)

(* construct_sequence *)
ConstructItems(items, i, l, fs) ==
    IF i > Len(items) THEN [val |-> PyList(l), exc |-> "none"]
    ELSE Strict(LAMBDA v :
                    IF v.exc # "none" THEN v
                    ELSE Strict(LAMBDA l2 : ConstructItems(items, i + 1, l2, fs),
                                Append(l, v.val)),
                Construct(items[i], fs))

(* construct_mapping *)
ConstructPairs(pairs, i, d, fs) ==
    IF i > Len(pairs) THEN [val |-> d, exc |-> "none"]
    ELSE Strict(LAMBDA v :
                    IF v.exc # "none" THEN v
                    ELSE Strict(LAMBDA d2 : ConstructPairs(pairs, i + 1, d2, fs),
                                SetItem(d, pairs[i].k, v.val)),
                Construct(pairs[i].v, fs))

RECURSIVE JoinStr(_, _)
(* "".join([str(i) for i in seq]) *)
JoinStr(l, i) == IF i > Len(l) THEN <<>> ELSE PyStrOf(l[i]) \o JoinStr(l, i + 1)

(* construct_object: a tagged node is handed to the constructor registered
   for its tag as constructor(loader, node) *)
Construct(node, fs) ==
    IF node.tag = tagInclude
    THEN IF IncludeArity = ConstructorArgs
         THEN Strict(LAMBDA paths :
                         IF paths.exc # "none" THEN paths
                         ELSE include(paths.val.l, 1, EmptyDict, fs),
                     ConstructItems(node.items, 1, <<>>, fs))
         ELSE [val |-> PyNone, exc |-> "TypeError"]
    ELSE IF node.tag = tagJoinStr
    THEN IF node.kind # "sequence" THEN [val |-> PyNone, exc |-> "ConstructorError"]
         ELSE Strict(LAMBDA seq :
                         IF seq.exc # "none" THEN seq
                         ELSE [val |-> PyStr(JoinStr(seq.val.l, 1)), exc |-> "none"],
                     ConstructItems(node.items, 1, <<>>, fs))
    ELSE IF node.tag # <<>> THEN [val |-> PyNone, exc |-> "ConstructorError"]
    ELSE IF node.kind = "scalar" THEN [val |-> ResolveScalar(node.value), exc |-> "none"]
    ELSE IF node.kind = "sequence" THEN ConstructItems(node.items, 1, <<>>, fs)
    ELSE ConstructPairs(node.pairs, 1, EmptyDict, fs)

(* yaml.safe_load: the document is composed, then constructed *)
safe_load(s, fs) ==
    Strict(LAMBDA r :
               IF ~r.ok THEN [val |-> PyNone, exc |-> "ParserError"]
               ELSE Construct(r.node, fs),
           Compose(s))

(* load_yaml_config *)
load_yaml_config(cfs, fs) == safe_load(IF cfs \in DOMAIN fs THEN fs[cfs] ELSE cfs, fs)

(* os.path.dirname(srw_path) and a "/" *)
sSrwHome == <<"/", "h", "/">>

(* abs_path: a relative path is joined to the directory above srw_path *)
AbsPath(filepath) ==
    IF Len(filepath.s) > 0 /\ filepath.s[1] = "/" THEN filepath.s
    ELSE sSrwHome \o filepath.s

RECURSIVE DumpFrom(_, _, _)
(* yaml.dump(cfg, sort_keys=False) of the items m[i..], in block style: one
   "key: value" line per scalar, the items of a dict on the lines below its
   key, two blanks deeper; an empty dict is written {} *)
DumpFrom(m, i, indent) ==
    IF i > Len(m) THEN <<>>
    ELSE (IF IsDict(m[i].v) /\ Len(m[i].v.m) > 0
          THEN indent \o m[i].k \o <<":", NL>>
                   \o DumpFrom(m[i].v.m, 1, indent \o <<" ", " ">>)
          ELSE indent \o m[i].k \o <<":", " ">>
                   \o (IF IsDict(m[i].v) THEN <<"{", "}">>
                       ELSE IF IsNone(m[i].v) THEN <<"n", "u", "l", "l">>
                       ELSE PyStrOf(m[i].v)) \o <<NL>>)
             \o DumpFrom(m, i + 1, indent)

dump(cfg) == IF Len(cfg.m) = 0 THEN <<"{", "}", NL>> ELSE DumpFrom(cfg.m, 1, <<>>)

(* include(filepaths), from the i-th path on: the top-level keys of each
   file are entered into cfg, and the text yaml.dump gives for cfg is
   returned *)
include(filepaths, i, cfg, fs) ==
    IF i > Len(filepaths) THEN [val |-> PyStr(dump(cfg)), exc |-> "none"]
    ELSE IF AbsPath(filepaths[i]) \notin DOMAIN fs
    THEN [val |-> PyNone, exc |-> "FileNotFoundError"]
    ELSE Strict(LAMBDA contents :
                    IF contents.exc # "none" THEN contents
                    ELSE IF ~IsDict(contents.val)
                    THEN [val |-> PyNone, exc |-> "AttributeError"]
                    ELSE Strict(LAMBDA merged : include(filepaths, i + 1, merged, fs),
                                DictUpdate(cfg, contents.val.m, 1)),
                safe_load(fs[AbsPath(filepaths[i])], fs))

pA == <<"a", ".", "y", "a", "m", "l">>
pB == <<"b", ".", "y", "a", "m", "l">>
pAbsB == sSrwHome \o pB
pMissing == <<"m", ".", "y", "a", "m", "l">>

(* what the files /h/a.yaml and /h/b.yaml may hold: {a: 1, b: 1}, {}, [1],
   {b: 2, c: 2} and {a: {c: 3}} *)
ContentsOfA ==
    {<<"{", "a", ":", " ", "1", ",", " ", "b", ":", " ", "1", "}">>, <<"{", "}">>,
     <<"[", "1", "]">>}
ContentsOfB ==
    {<<"{", "b", ":", " ", "2", ",", " ", "c", ":", " ", "2", "}">>,
     <<"{", "a", ":", " ", "{", "c", ":", " ", "3", "}", "}">>}

(* lists of one or two paths *)
IncludePaths == {PyStr(pA), PyStr(pB), PyStr(pAbsB), PyStr(pMissing)}
IncludeLists ==
    {<<q>> : q \in IncludePaths} \cup {<<q, r>> : q \in IncludePaths, r \in IncludePaths}

RECURSIVE JoinPaths(_, _)
(* the paths l[i..], separated by ", " *)
JoinPaths(l, i) ==
    IF i > Len(l) THEN <<>>
    ELSE l[i].s \o (IF i < Len(l) THEN <<",", " ">> ELSE <<>>) \o JoinPaths(l, i + 1)

(* !include [p, q] *)
IncludeNodeText(l) == tagInclude \o <<" ", "[">> \o JoinPaths(l, 1) \o <<"]">>

(* the documents {x: !include [...]}, {a: 1, x: !include [...]},
   !include [...], the first of them without its closing brace,
   {x: !join_str [a, 1]} and {a: 1} *)
YamlTextsOver(l) ==
    {<<"{", "x", ":", " ">> \o IncludeNodeText(l) \o <<"}">>,
     <<"{", "a", ":", " ", "1", ",", " ", "x", ":", " ">> \o IncludeNodeText(l) \o <<"}">>,
     IncludeNodeText(l),
     <<"{", "x", ":", " ">> \o IncludeNodeText(l),
     <<"{", "x", ":", " ">> \o tagJoinStr \o <<" ", "[", "a", ",", " ", "1", "]", "}">>,
     <<"{", "a", ":", " ", "1", "}">>}

(* dict_o holds the list of paths that the document names *)
InitYaml ==
    /\ op = "none"
    /\ dict_o \in {PyList(l) : l \in IncludeLists}
    /\ dict_t = EmptyDict
    /\ pre_t = dict_t
    /\ provide_default = FALSE
    /\ keys = PyNone
    /\ keys_regex = <<>>
    /\ ret = PyNone
    /\ exc = "none"
    /\ calls = 0
    /\ ext = eYaml
    /\ context = PyNone
    /\ adapters = <<>>
    /\ NoMain
    /\ NoHeap
    /\ \E text \in YamlTextsOver(dict_o.l), ca \in ContentsOfA, cb \in ContentsOfB :
           \/ /\ config_file_or_string = text
              /\ files = [path \in {sSrwHome \o pA, pAbsB} |->
                             IF path = pAbsB THEN cb ELSE ca]
           \/ /\ config_file_or_string = pYaml
              /\ files = [path \in {sSrwHome \o pA, pAbsB, pYaml} |->
                             IF path = pYaml THEN text
                             ELSE IF path = pAbsB THEN cb ELSE ca]

(* cfg = load_yaml_config(config_file_or_string) *)
CallLoadYamlConfig ==
    /\ calls < MaxCalls
    /\ op = "none"
    /\ LET r == load_yaml_config(config_file_or_string, files)
       IN  /\ ret' = r.val
           /\ exc' = r.exc
    /\ op' = "load_yaml_config"
    /\ adapters' = Append(adapters, "load_yaml_config")
    /\ calls' = calls + 1
    /\ UNCHANGED <<dict_o, dict_t, pre_t, provide_default, keys, keys_regex>>
    /\ UNCHANGED <<config_file_or_string, ext, context, files>>
    /\ UNCHANGED mainVars
    /\ UNCHANGED heap

(* include(filepaths), called as a function with the list of paths *)
CallInclude ==
    /\ calls < MaxCalls
    /\ op = "none"
    /\ LET r == include(dict_o.l, 1, EmptyDict, files)
       IN  /\ ret' = r.val
           /\ exc' = r.exc
    /\ op' = "include"
    /\ calls' = calls + 1
    /\ UNCHANGED <<dict_o, dict_t, pre_t, provide_default, keys, keys_regex>>
    /\ UNCHANGED <<loaderVars, mainVars, heap>>

NextYaml == CallLoadYamlConfig \/ CallInclude

SpecYaml == InitYaml /\ [][NextYaml]_vars

(* Properties of the !include tag *)

YamlLoaded == op = "load_yaml_config"

(* the YAML text: the contents of the file, or the string *)
YamlText ==
    IF config_file_or_string \in DOMAIN files THEN files[config_file_or_string]
    ELSE config_file_or_string

(* the document holds an !include node that lists the paths of dict_o *)
HasIncludeNode == Compose(YamlText).ok /\ Contains(YamlText, tagInclude)

(* the dict the listed file holds, None if it is missing or holds no dict *)
FileDict(filepath) ==
    IF AbsPath(filepath) \notin DOMAIN files THEN PyNone
    ELSE LET r == safe_load(files[AbsPath(filepath)], files)
         IN  IF r.exc = "none" /\ IsDict(r.val) THEN r.val ELSE PyNone

(* every listed file exists and holds a dict *)
Includable(l) == \A i \in 1..Len(l) : IsDict(FileDict(l[i]))

(* d holds the top-level keys of the files of l, each with the value of the
   last file that defines it *)
IsMergeOf(d, l) ==
    /\ IsDict(d)
    /\ KeysOf(d) = UNION {KeysOf(FileDict(l[i])) : i \in 1..Len(l)}
    /\ \A k \in KeysOf(d) :
          LET last == CHOOSE i \in 1..Len(l) :
                          /\ HasKey(FileDict(l[i]), k)
                          /\ \A j \in (i + 1)..Len(l) : ~HasKey(FileDict(l[j]), k)
          IN  PyEq(GetItem(d, k), GetItem(FileDict(l[last]), k))

(* the value load_yaml_config gave for the !include node: the document
   itself, or what it holds under x *)
IncludeValue ==
    IF IsDict(ret) /\ HasKey(ret, kX) THEN GetItem(ret, kX) ELSE ret

(* C26: a node tagged !include that lists one or more YAML files is
   evaluated during load_yaml_config, without error, into the merge of the
   files' top-level keys, the file listed last winning. *)
C26_IncludeMerges ==
    (YamlLoaded /\ HasIncludeNode /\ Includable(dict_o.l)) =>
        /\ exc = "none"
        /\ IsMergeOf(IncludeValue, dict_o.l)

(* load_yaml_config raises TypeError on every document that holds an
   !include node *)
IncludeNodeRaises ==
    (YamlLoaded /\ HasIncludeNode) => (exc = "TypeError" /\ ret = PyNone)

(* include, called as a function on files that exist and hold dicts,
   returns a str, the text yaml.dump gives, and no dict *)
DirectIncludeGivesText ==
    (op = "include" /\ Includable(dict_o.l)) => (exc = "none" /\ IsStr(ret))

(* {x: !include [a.yaml, b.yaml]} with a.yaml {a: 1, b: 1} and b.yaml
   {b: 2, c: 2}: TypeError *)
IncludeRaisedTypeError ==
    /\ YamlLoaded
    /\ dict_o = PyList(<<PyStr(pA), PyStr(pB)>>)
    /\ config_file_or_string =
           <<"{", "x", ":", " ">> \o IncludeNodeText(dict_o.l) \o <<"}">>
    /\ Includable(dict_o.l)
    /\ exc = "TypeError"

(* include(["a.yaml", "b.yaml"]) on the same files returned the text
   "a: 1\nb: 2\nc: 2\n" *)
DirectIncludeDumped ==
    /\ op = "include"
    /\ dict_o = PyList(<<PyStr(pA), PyStr(pB)>>)
    /\ exc = "none"
    /\ ret = PyStr(<<"a", ":", " ", "1", NL, "b", ":", " ", "2", NL,
                     "c", ":", " ", "2", NL>>)

(* {x: !join_str [a, 1]} was loaded as {"x": "a1"} *)
JoinStrConstructed ==
    /\ YamlLoaded
    /\ exc = "none"
    /\ ret = PyDict(<<Item(kX, PyStr(<<"a", "1">>))>>)

-----------------------------------------------------------------------------
(* Null entries of the source of update_dict *)

(* the source keys that hold None *)
NullKeys(o) == {k \in KeysOf(o) : IsNone(GetItem(o, k))}

(* C27: when update_dict returns, every source key whose value is None is
   absent from the target, whether the target held the key before or not. *)
C27_NullNeverAddsKey ==
    (Merged /\ Returned) => \A k \in NullKeys(dict_o) : ~HasKey(dict_t, k)

(* after the first call: a None source key is absent from the target when
   the target held it, and present with the value None when it did not *)
NullAddedWhereAbsent ==
    (Merged /\ Returned /\ calls = 1) =>
        \A k \in NullKeys(dict_o) :
            /\ HasKey(pre_t, k) => ~HasKey(dict_t, k)
            /\ ~HasKey(pre_t, k) => (HasKey(dict_t, k) /\ IsNone(GetItem(dict_t, k)))

(* update_dict({"a": None}, {}) has left {"a": None} *)
NullKeyAdded ==
    /\ Merged /\ Returned /\ calls = 1
    /\ dict_o = PyDict(<<Item(kA, PyNone)>>)
    /\ pre_t = EmptyDict
    /\ dict_t = PyDict(<<Item(kA, PyNone)>>)

-----------------------------------------------------------------------------
(* update_dict twice *)

(* C28: with provide-default off, a second update_dict(source, target) in
   succession leaves the target as the first call left it. *)
C28_MergeIdempotent ==
    [][(Merged /\ Returned /\ ~provide_default /\ CallUpdateDict)
          => (exc' = "none" /\ PyEq(dict_t', dict_t))]_vars

(* a source that holds no None *)
RECURSIVE NullFree(_)
NullFree(o) ==
    \A k \in KeysOf(o) :
        /\ ~IsNone(GetItem(o, k))
        /\ IsDict(GetItem(o, k)) => NullFree(GetItem(o, k))

(* for a source without None, the second call leaves the target as the first
   one left it *)
MergeIdempotentWithoutNull ==
    [][(Merged /\ Returned /\ ~provide_default /\ NullFree(dict_o) /\ CallUpdateDict)
          => (exc' = "none" /\ PyEq(dict_t', dict_t))]_vars

(* update_dict({"a": None}, {"a": 9}) twice: {} after the first call,
   {"a": None} after the second *)
SecondMergeAddedNull ==
    /\ Merged /\ Returned /\ calls = 2 /\ ~provide_default
    /\ dict_o = PyDict(<<Item(kA, PyNone)>>)
    /\ pre_t = EmptyDict
    /\ dict_t = PyDict(<<Item(kA, PyNone)>>)

-----------------------------------------------------------------------------
(* update_dict and extend_yaml on dict objects.  heap.obj is the store of
   dict objects, a dict value of an object being held as a reference to
   another object; heap.src and heap.tgt are the objects the names of the
   source and of the target are bound to. *)

Ref(i) == [tag |-> "ref", id |-> i]
IsRef(v) == v.tag = "ref"

(* the value of the object id *)
RECURSIVE Deref(_, _)
Deref(h, id) ==
    PyDict([i \in 1..Len(h[id].m) |->
               IF IsRef(h[id].m[i].v)
               THEN Item(h[id].m[i].k, Deref(h, h[id].m[i].v.id))
               ELSE h[id].m[i]])

(* the value held in an object's slot *)
ValueOf(h, x) == IF IsRef(x) THEN Deref(h, x.id) ELSE x

(* the object id after an assignment or a deletion has made it d *)
Store(h, id, d) == [h EXCEPT ![id] = d]

RECURSIVE AllocFrom(_, _, _, _)
(* the objects of a freshly built dict, each nested dict an object of its
   own; yields the store and the id of the dict *)
AllocFrom(h, items, i, acc) ==
    IF i > Len(items) THEN [h |-> Append(h, PyDict(acc)), id |-> Len(h) + 1]
    ELSE IF IsDict(items[i].v) THEN
        Strict(LAMBDA r : AllocFrom(r.h, items, i + 1,
                                    Append(acc, Item(items[i].k, Ref(r.id)))),
               AllocFrom(h, items[i].v.m, 1, <<>>))
    ELSE AllocFrom(h, items, i + 1, Append(acc, items[i]))

Alloc(h, d) == AllocFrom(h, d.m, 1, <<>>)

RECURSIVE UpdateObjFrom(_, _, _, _, _)
(* The loop of update_dict over the snapshot items of the source, from the
   i-th item on, the target being the object t: dict_t[k] = v stores the
   reference v itself. *)
UpdateObjFrom(h, items, i, t, pd) ==
    IF i > Len(items) THEN [h |-> h, exc |-> "none"]
    ELSE
        LET k == items[i].k
            v == items[i].v
            d == h[t]
        IN  IF IsRef(v) THEN
                IF HasKey(d, k) /\ IsRef(GetItem(d, k)) THEN
                    Strict(LAMBDA r :
                               IF r.exc # "none" THEN r
                               ELSE UpdateObjFrom(r.h, items, i + 1, t, pd),
                           UpdateObjFrom(h, h[v.id].m, 1, GetItem(d, k).id, pd))
                ELSE UpdateObjFrom(Store(h, t, SetItem(d, k, TypeConflictValue(v, d, k))),
                                   items, i + 1, t, pd)
            ELSE IF IsDeletion(v, d, k) THEN
                UpdateObjFrom(Store(h, t, DelItem(d, k)), items, i + 1, t, pd)
            ELSE IF HasKey(d, k) THEN
                Strict(LAMBDA c :
                           IF c = "TypeError" THEN [h |-> h, exc |-> "TypeError"]
                           ELSE IF c = "true"
                           THEN UpdateObjFrom(Store(h, t, SetItem(d, k, v)), items, i + 1, t, pd)
                           ELSE UpdateObjFrom(h, items, i + 1, t, pd),
                       OverwriteCond(ValueOf(h, GetItem(d, k)), pd))
            ELSE UpdateObjFrom(Store(h, t, SetItem(d, k, v)), items, i + 1, t, pd)

(* update_dict(dict_o, dict_t, provide_default) on the objects o and t *)
UpdateObj(h, o, t, pd) == UpdateObjFrom(h, h[o].m, 1, t, pd)

RECURSIVE ExtendObjFrom(_, _, _, _)
(* The assignments of extend_yaml, yaml_dict[k] = v_str, made in the object
   id and the objects below it: doc is the value extend_yaml leaves.  The
   target is a tree of objects, none of them reached twice. *)
ExtendObjFrom(h, id, doc, i) ==
    IF i > Len(h[id].m) THEN h
    ELSE IF IsRef(h[id].m[i].v) THEN
        Strict(LAMBDA h2 : ExtendObjFrom(h2, id, doc, i + 1),
               ExtendObjFrom(h, h[id].m[i].v.id, doc.m[i].v, 1))
    ELSE ExtendObjFrom(Store(h, id, SetItem(h[id], h[id].m[i].k, doc.m[i].v)),
                       id, doc, i + 1)

(* dicts with the single key c *)
DictsC(Vals) == {EmptyDict} \cup {PyDict(<<Item(kC, v)>>) : v \in Vals}

AliasSources == DictsAB({PyInt(5)} \cup DictsC({PyNone, PyInt(5), sExprA}))
AliasTargets == DictsAB({PyInt(9)} \cup DictsC({PyInt(9)}))
(* the sources of the later merges *)
AliasOthers == {PyDict(<<Item(k, v)>>) : k \in {kA, kB}, v \in DictsC({PyNone, PyInt(7)})}

InitAlias ==
    /\ op = "none"
    /\ dict_o \in AliasSources
    /\ dict_t \in AliasTargets
    /\ pre_t = dict_t
    /\ provide_default \in BOOLEAN
    /\ keys = PyNone
    /\ keys_regex = <<>>
    /\ ret = PyNone
    /\ exc = "none"
    /\ calls = 0
    /\ NoLoader
    /\ NoMain
    /\ heap = LET a == Alloc(<<>>, dict_o)
                  t == Alloc(a.h, dict_t)
              IN  [obj |-> t.h, src |-> a.id, tgt |-> t.id]

(* the source as it is now *)
Source == Deref(heap.obj, heap.src)

(* update_dict(A, T), the first call *)
MergeSource ==
    /\ op = "none"
    /\ LET r == UpdateObj(heap.obj, heap.src, heap.tgt, provide_default)
       IN  /\ heap' = [heap EXCEPT !.obj = r.h]
           /\ dict_t' = Deref(r.h, heap.tgt)
           /\ exc' = r.exc
    /\ pre_t' = dict_t
    /\ op' = "update_dict"
    /\ ret' = PyNone
    /\ calls' = calls + 1
    /\ UNCHANGED <<dict_o, provide_default, keys, keys_regex>>
    /\ UNCHANGED loaderVars
    /\ UNCHANGED mainVars

(* update_dict(B, T) for a freshly built B *)
MergeOther ==
    /\ op # "none"
    /\ exc = "none"
    /\ calls < MaxAliasCalls
    /\ \E B \in AliasOthers :
           LET b == Alloc(heap.obj, B)
               r == UpdateObj(b.h, b.id, heap.tgt, provide_default)
           IN  /\ heap' = [heap EXCEPT !.obj = r.h]
               /\ dict_t' = Deref(r.h, heap.tgt)
               /\ exc' = r.exc
               /\ dict_o' = B
    /\ pre_t' = dict_t
    /\ op' = "update_dict"
    /\ ret' = PyNone
    /\ calls' = calls + 1
    /\ UNCHANGED <<provide_default, keys, keys_regex>>
    /\ UNCHANGED loaderVars
    /\ UNCHANGED mainVars

(* extend_yaml(T) *)
ExpandTarget ==
    /\ op # "none"
    /\ exc = "none"
    /\ calls < MaxAliasCalls
    /\ LET r == extend_yaml(dict_t)
       IN  /\ heap' = [heap EXCEPT !.obj = ExtendObjFrom(heap.obj, heap.tgt, r.doc, 1)]
           /\ dict_t' = r.doc
           /\ exc' = r.exc
    /\ pre_t' = dict_t
    /\ op' = "extend_yaml"
    /\ ret' = PyNone
    /\ calls' = calls + 1
    /\ UNCHANGED <<dict_o, provide_default, keys, keys_regex>>
    /\ UNCHANGED loaderVars
    /\ UNCHANGED mainVars

NextAlias ==
    \/ MergeSource
    \/ MergeOther
    \/ ExpandTarget

SpecAlias == InitAlias /\ [][NextAlias]_vars

(* C29: after update_dict(A, T), no later update_dict(B, T) and no
   extend_yaml(T) changes the source A or a mapping nested in it. *)
C29_SourceNotAliased ==
    [][Deref(heap'.obj, heap'.src) = Source]_vars

(* the call update_dict(A, T) itself leaves A as it was *)
FirstMergeKeepsSource ==
    [][op = "none" => Deref(heap'.obj, heap'.src) = Source]_vars

(* a source without a nested mapping is never changed *)
FlatSourceUnchanged ==
    [][(\A k \in KeysOf(Source) : ~IsDict(GetItem(Source, k)))
          => Deref(heap'.obj, heap'.src) = Source]_vars

(* the target names the value its object holds *)
TargetIsItsObject == dict_t = Deref(heap.obj, heap.tgt)

(* the first call leaves in the target what update_dict leaves when run on
   the values *)
ObjectsAgreeWithValues ==
    [][op = "none" =>
          /\ dict_t' = update_dict(dict_o, dict_t, provide_default).t
          /\ exc' = update_dict(dict_o, dict_t, provide_default).exc]_vars

RECURSIVE Holds(_, _)
(* the leaf x occurs in the value v *)
Holds(v, x) ==
    IF IsDict(v) THEN \E i \in 1..Len(v.m) : Holds(v.m[i].v, x)
    ELSE v = x

(* a later update_dict(B, T) has written B's 7 into the source *)
SourceChangedByMerge ==
    /\ op = "update_dict" /\ exc = "none"
    /\ Holds(Source, PyInt(7))

(* a later update_dict(B, T) has deleted a key of a mapping nested in the
   source: the source is {"a": {}} and the target was {"a": {"c": 5}} *)
SourceKeyDeleted ==
    /\ op = "update_dict" /\ exc = "none"
    /\ dict_o = PyDict(<<Item(kA, PyDict(<<Item(kC, PyNone)>>))>>)
    /\ pre_t = PyDict(<<Item(kA, PyDict(<<Item(kC, PyInt(5))>>))>>)
    /\ Source = PyDict(<<Item(kA, EmptyDict)>>)

(* extend_yaml(T) has rendered a template of the source with the target's 9 *)
SourceChangedByExpansion ==
    /\ op = "extend_yaml" /\ exc = "none"
    /\ Holds(Source, PyInt(9))

-----------------------------------------------------------------------------
(* What extend_yaml leaves of the values that are not str *)

RECURSIVE KeptFrom(_, _, _)
(* b holds every value of a that is not a str, at its place and as it was:
   a str may have become anything, a dict that is a value of a dict holds
   its keys, a list its length, and a number, a boolean, None or a dict that
   is an element of a list (inList) is the same value *)
KeptFrom(a, b, inList) ==
    IF IsStr(a) THEN TRUE
    ELSE IF IsDict(a) /\ ~inList THEN
        /\ IsDict(b)
        /\ Len(b.m) = Len(a.m)
        /\ \A i \in 1..Len(a.m) :
               b.m[i].k = a.m[i].k /\ KeptFrom(a.m[i].v, b.m[i].v, FALSE)
    ELSE IF IsList(a) THEN
        /\ IsList(b)
        /\ Len(b.l) = Len(a.l)
        /\ \A i \in 1..Len(a.l) : KeptFrom(a.l[i], b.l[i], TRUE)
    ELSE b = a

(* C30: after extend_yaml has returned, every value that was not a str is at
   its place with the type and content it had: numbers, booleans, None, and
   a dict that is an element of a list, template inside or not. *)
C30_OnlyStringsChange ==
    (Expanded /\ Returned) => KeptFrom(pre_t, dict_t, FALSE)

(* The same for the documents that hold no dict inside a list. *)
OnlyStringsChangeWithoutDictInList ==
    (Expanded /\ Returned /\ ~HoldsDictInList(pre_t, FALSE))
        => KeptFrom(pre_t, dict_t, FALSE)

(* the first element of the list x.b was a dict and is a str *)
MappingInListReplaced ==
    /\ Expanded /\ Returned
    /\ TargetIsDict(pre_t, kX)
    /\ HasKey(GetItem(pre_t, kX), kB)
    /\ LET was == GetItem(GetItem(pre_t, kX), kB)
           is == GetItem(GetItem(dict_t, kX), kB)
       IN  IsList(was) /\ IsDict(was.l[1]) /\ IsStr(is.l[1])

(* None, True and a number of the section x are what they were while a str
   next to them has changed *)
NonStringsKeptBesideRendered ==
    /\ Expanded /\ Returned
    /\ TargetIsDict(pre_t, kX)
    /\ LET was == GetItem(pre_t, kX)
           is == GetItem(dict_t, kX)
       IN  /\ Len(was.m) = 2
           /\ was.m[1].v \in {PyNone, PyBool(TRUE), PyInt(2)}
           /\ is.m[1].v = was.m[1].v
           /\ IsStr(was.m[2].v)
           /\ is.m[2].v # was.m[2].v

====
